---------------------------- MODULE Spec2Model ----------------------------
(***************************************************************************)
(* Model of secfiling_extraction.py: the Record Normalizer                  *)
(* (extract_numeric_value, parse_simplified_value, get_value_from_dict,     *)
(* extract_*_data, parse_json_file) and the relational store                *)
(* (check_duplicate_filing, insert_data_to_database).                       *)
(*                                                                         *)
(* Python strings are sequences of one-character strings.  JSON / Python   *)
(* values are records tagged by "kind".  A float is the exact decimal      *)
(* [m, e] = m * 10^-e with trailing fraction zeros removed.                 *)
(***************************************************************************)
EXTENDS Integers, Sequences, FiniteSets, TLC

VARIABLES
    value,          \* argument of parse_simplified_value
    result,         \* what parse_simplified_value(value) returned
    data_dict,      \* group mapping given to get_value_from_dict
    possible_keys,  \* ordered candidate keys given to get_value_from_dict
    found,          \* what get_value_from_dict returned
    filing_data,    \* the 'data' object of a persisted JSON artifact
    record,         \* what the body of parse_json_file built from it
    db,             \* the committed rows of the seven tables
    call,           \* the last insert_data_to_database call: its argument,
                    \* its return value, the records it skipped, db before it
    response,       \* what rag_chain.invoke does in extract_metrics: the
                    \* response text it returns or the error it raises
    invocations,    \* number of rag_chain.invoke calls made so far
    extraction_result,  \* what extract_metrics returned
    list_request,   \* filing_type and count given to get_filings_list
    index_response, \* what the EDGAR company index answers
    filings,        \* what get_filings_list returned
    doc_request,    \* ticker and filing_type of get_filing_document_url
    documents_page, \* what the documents index page answers
    doc_url,        \* what get_filing_document_url returned
    download,       \* what extract_text_from_url meets: the download, the
                    \* lengths of both passes, the errors of the writes
    text_result,    \* what extract_text_from_url returned and did
    text_files,     \* the files extract_text_from_url has written
    conn,           \* main: the database connection ("none" for None)
    db_enabled,     \* main: a database connection was obtained
    company,        \* main: ticker, cik, company_name selected
    filings_to_process, \* main: the selected (filing_type, filing) pairs
    pc,             \* main: position in the processing loop
    effects,        \* main: the external calls made, per filing type
    results,        \* main: results['filings']
    parsed_data,    \* main: what parse_json_file gave for the current file
    outputs         \* main: JSON, Excel and database writes, per filing type

normalizerVars == <<value, result, data_dict, possible_keys, found,
                    filing_data, record>>
storeVars == <<db, call>>
metricsVars == <<response, invocations, extraction_result>>
listVars == <<list_request, index_response, filings>>
docVars == <<doc_request, documents_page, doc_url>>
textVars == <<download, text_result, text_files>>
mainVars == <<conn, db_enabled, company, filings_to_process, pc, effects,
              results, parsed_data, outputs>>
pipelineVars == <<metricsVars, listVars, docVars, textVars, mainVars>>

vars == <<normalizerVars, storeVars, pipelineVars>>

---------------------------------------------------------------------------
(* Bounds of the model *)

\* longest string enumerated exhaustively over Alphabet
MaxLen == 5
\* longest candidate-key list given to get_value_from_dict
MaxKeys == 3
\* most records handed to one insert_data_to_database call (main hands one)
MaxBatch == 2
\* longest LLM response enumerated exhaustively, in tokens
MaxResponse == 6
\* most rows after the header in the filings table of the EDGAR index
MaxRows == 3
\* most rows after the header in the table of a documents index page
MaxLinks == 3

---------------------------------------------------------------------------
(* Python values *)

None == [kind |-> "null"]
Str(s) == [kind |-> "str", s |-> s]
Float(m, e) == [kind |-> "num", m |-> m, e |-> e]
\* a dict / JSON object: m is the function from its keys to its values
Dict(m) == [kind |-> "map", m |-> m]
EmptyDict == Dict(<<>>)
\* an exception propagating out of a call
Raised == [kind |-> "raised"]
\* a call that has not happened yet
NotRun == [kind |-> "notrun"]

IsStr(v) == v.kind = "str"
IsDict(v) == v.kind = "map"

\* key in d, for a dict d
Has(d, k) == k \in DOMAIN d.m

\* d.get(k, default), for a dict d
Get(d, k, default) == IF Has(d, k) THEN d.m[k] ELSE default

Digits == {"0", "1", "2", "3", "4", "5", "6", "7", "8", "9"}
IsDigit(c) == c \in Digits

DigitVal(c) ==
    CASE c = "0" -> 0 [] c = "1" -> 1 [] c = "2" -> 2 [] c = "3" -> 3
      [] c = "4" -> 4 [] c = "5" -> 5 [] c = "6" -> 6 [] c = "7" -> 7
      [] c = "8" -> 8 [] c = "9" -> 9

\* str.lower() on one character (the letters the model's strings use)
LowerChar(c) ==
    CASE c = "A" -> "a" [] c = "B" -> "b" [] c = "C" -> "c" [] c = "D" -> "d"
      [] c = "E" -> "e" [] c = "F" -> "f" [] c = "G" -> "g" [] c = "H" -> "h"
      [] c = "I" -> "i" [] c = "J" -> "j" [] c = "K" -> "k" [] c = "L" -> "l"
      [] c = "M" -> "m" [] c = "N" -> "n" [] c = "O" -> "o" [] c = "P" -> "p"
      [] c = "Q" -> "q" [] c = "R" -> "r" [] c = "S" -> "s" [] c = "T" -> "t"
      [] c = "U" -> "u" [] c = "V" -> "v" [] c = "W" -> "w" [] c = "X" -> "x"
      [] c = "Y" -> "y" [] c = "Z" -> "z"
      [] OTHER -> c

\* str.lower()
Lower(s) == [i \in 1..Len(s) |-> LowerChar(s[i])]

\* str.replace(c, '')
RECURSIVE Remove(_, _)
Remove(s, c) ==
    IF s = <<>> THEN <<>>
    ELSE IF Head(s) = c THEN Remove(Tail(s), c)
    ELSE <<Head(s)>> \o Remove(Tail(s), c)

---------------------------------------------------------------------------
(* String literals of the source *)

s_not_found == <<"N", "o", "t", " ", "f", "o", "u", "n", "d">>
s_not_found_lc == <<"n", "o", "t", " ", "f", "o", "u", "n", "d">>
s_n_m == <<"n", "/", "m">>
s_nm == <<"n", "m">>
s_n_m_dots == <<"n", ".", "m", ".">>
s_none == <<"n", "o", "n", "e">>

\* the list tested by extract_numeric_value after lower()
SentinelList == {s_not_found_lc, s_n_m, s_nm, s_n_m_dots, <<>>, s_none}

---------------------------------------------------------------------------
(* float() *)

RECURSIVE DigitsToNat(_, _)
\* the integer written by the digit string s, continuing from acc
DigitsToNat(s, acc) ==
    IF s = <<>> THEN acc ELSE DigitsToNat(Tail(s), acc * 10 + DigitVal(Head(s)))

RECURSIVE Normalize(_, _)
\* m * 10^-e without trailing fraction zeros
Normalize(m, e) ==
    IF e > 0 /\ m % 10 = 0 THEN Normalize(m \div 10, e - 1) ELSE Float(m, e)

\* index of "." in s, or 0
DotAt(s) ==
    IF \E i \in 1..Len(s) : s[i] = "."
    THEN CHOOSE i \in 1..Len(s) : s[i] = "." ELSE 0

\* float(s) for s of the form -?DIGITS(.DIGITS)?
ParseFloat(s) ==
    LET neg  == Len(s) > 0 /\ s[1] = "-"
        body == IF neg THEN Tail(s) ELSE s
        dot  == DotAt(body)
        ip   == IF dot = 0 THEN body ELSE SubSeq(body, 1, dot - 1)
        fp   == IF dot = 0 THEN <<>> ELSE SubSeq(body, dot + 1, Len(body))
        mag  == DigitsToNat(ip \o fp, 0)
    IN  Normalize(IF neg THEN 0 - mag ELSE mag, Len(fp))

---------------------------------------------------------------------------
(* re.search(r'-?\d{1,3}(?:,\d{3})*(?:\.\d+)?', cleaned) *)

RECURSIVE DigitRun(_, _)
\* number of consecutive digits of s from index i on
DigitRun(s, i) ==
    IF i <= Len(s) /\ IsDigit(s[i]) THEN 1 + DigitRun(s, i + 1) ELSE 0

Min(a, b) == IF a < b THEN a ELSE b

RECURSIVE Groups(_, _)
\* (?:,\d{3})* greedily from index j: the index after the last group
Groups(s, j) ==
    IF j + 3 <= Len(s) /\ s[j] = "," /\ IsDigit(s[j + 1])
       /\ IsDigit(s[j + 2]) /\ IsDigit(s[j + 3])
    THEN Groups(s, j + 4) ELSE j

\* (?:\.\d+)? greedily from index j: the index after it
Fraction(s, j) ==
    IF j + 1 <= Len(s) /\ s[j] = "." /\ IsDigit(s[j + 1])
    THEN j + 1 + DigitRun(s, j + 1) ELSE j

\* \d{1,3}: at most three digits are taken
IntDigits(s, j) == Min(DigitRun(s, j), 3)

\* the pattern anchored at index i: the index after the match, 0 when none
MatchAt(s, i) ==
    LET j0 == IF s[i] = "-" THEN i + 1 ELSE i
    IN  IF j0 <= Len(s) /\ IsDigit(s[j0])
        THEN Fraction(s, Groups(s, j0 + IntDigits(s, j0)))
        ELSE 0

\* re.search: the leftmost match as <<start, end>> (end exclusive), <<>> if none
Search(s) ==
    LET starts == {i \in 1..Len(s) : MatchAt(s, i) # 0}
    IN  IF starts = {} THEN <<>>
        ELSE LET i == CHOOSE k \in starts : \A l \in starts : k <= l
             IN  <<i, MatchAt(s, i)>>

---------------------------------------------------------------------------
(* extract_numeric_value, parse_simplified_value *)

extract_numeric_value(value_str) ==
    IF ~IsStr(value_str) THEN value_str
    ELSE IF Lower(value_str.s) \in SentinelList THEN None
    ELSE LET cleaned == Remove(Remove(value_str.s, "$"), "%")
             match   == Search(cleaned)
         IN  IF match # <<>>
             THEN ParseFloat(Remove(SubSeq(cleaned, match[1], match[2] - 1), ","))
             ELSE None

\* Python truthiness of a value ('', 0, None and {} are falsy)
Truthy(v) ==
    CASE v.kind = "null" -> FALSE
      [] v.kind = "str"  -> v.s # <<>>
      [] v.kind = "num"  -> v.m # 0
      [] v.kind = "map"  -> DOMAIN v.m # {}
      [] OTHER           -> TRUE

RECURSIVE LStrip(_)
\* str.lstrip() (the only whitespace of the model's strings is " ")
LStrip(s) == IF s # <<>> /\ Head(s) = " " THEN LStrip(Tail(s)) ELSE s

RECURSIVE RStrip(_)
\* str.rstrip()
RStrip(s) ==
    IF s # <<>> /\ s[Len(s)] = " " THEN RStrip(SubSeq(s, 1, Len(s) - 1)) ELSE s

\* f"{v} {unit}".strip() for strings v and unit
JoinUnit(v, u) == RStrip(LStrip(v \o <<" ">> \o u))

\* parse_simplified_value returning the cleaned string ('$', '%' and ','
\* removed) as the display of a plain string
parse_simplified_value_cleaned(v) ==
    IF ~Truthy(v) \/ v = Str(s_not_found) THEN [num |-> None, str |-> v]
    ELSE IF IsDict(v)
    THEN [num |-> None, str |-> Str(s_not_found)]
    ELSE [num |-> extract_numeric_value(v),
          str |-> IF IsStr(v)
                  THEN Str(Remove(Remove(Remove(v.s, "$"), "%"), ","))
                  ELSE v]

\* parse_simplified_value returning (None, None) for a falsy or "Not found" input
parse_simplified_value_null_display(v) ==
    IF ~Truthy(v) \/ v = Str(s_not_found) THEN [num |-> None, str |-> None]
    ELSE [num |-> extract_numeric_value(v), str |-> v]

\* returns the tuple (numeric_value, original_string) as [num, str]; in the
\* old {value, unit} format both entries are strings
parse_simplified_value(v) ==
    IF ~Truthy(v) \/ v = Str(s_not_found) THEN [num |-> None, str |-> v]
    ELSE IF IsDict(v)
    THEN LET val  == Get(v, "value", Str(s_not_found))
             unit == Get(v, "unit", Str(<<>>))
         IN  IF val = Str(s_not_found)
             THEN [num |-> None, str |-> Str(s_not_found)]
             ELSE [num |-> extract_numeric_value(val),
                   str |-> Str(JoinUnit(val.s, unit.s))]
    ELSE [num |-> extract_numeric_value(v), str |-> v]

---------------------------------------------------------------------------
(* get_value_from_dict *)

RECURSIVE get_value_from_dict_last(_, _)
\* get_value_from_dict letting a later present key override an earlier one
get_value_from_dict_last(d, keys) ==
    IF ~IsDict(d) THEN (IF keys = <<>> THEN [num |-> None, str |-> None] ELSE Raised)
    ELSE IF keys = <<>> THEN [num |-> None, str |-> None]
    ELSE LET rest == get_value_from_dict_last(d, Tail(keys))
         IN  IF rest # [num |-> None, str |-> None] \/ ~Has(d, Head(keys))
             THEN rest
             ELSE parse_simplified_value(d.m[Head(keys)])

RECURSIVE get_value_from_dict(_, _)
\* the first key of possible_keys present in data_dict decides; 'key in
\* data_dict' raises TypeError when data_dict is null
get_value_from_dict(d, keys) ==
    IF keys = <<>> THEN [num |-> None, str |-> None]
    ELSE IF ~IsDict(d) THEN Raised
    ELSE IF Has(d, Head(keys)) THEN parse_simplified_value(d.m[Head(keys)])
    ELSE get_value_from_dict(d, Tail(keys))

---------------------------------------------------------------------------
(* The metric groups.  A group of the canonical record is a dict from field  *)
(* name to the MetricValue [num, str]: field f stands for the two entries    *)
(* f and f_str of the Python dict.                                           *)

\* field |-> candidate keys, of extract_production_data
ProductionFields ==
    [oil_mbbl_per_day |->
        <<"oil_production_mbbl_per_day", "oil_mbbl_per_day">>,
     ngl_mbbl_per_day |->
        <<"ngl_production_mbbl_per_day", "ngl_mbbl_per_day">>,
     gas_mmcf_per_day |->
        <<"gas_production_mmcf_per_day", "gas_mmcf_per_day">>,
     boe_mboe_per_day |->
        <<"total_boe_mboe_per_day", "boe_mboe_per_day">>,
     oil_mmbls_total |->
        <<"oil_production_mmbl_total", "oil_mmbls">>,
     ngl_mmbls_total |->
        <<"ngl_production_mmbl_total", "ngl_mmbls">>,
     gas_bcf_total |->
        <<"gas_production_bcf_total", "gas_bcf">>,
     boe_mmboe_total |->
        <<"total_boe_mmboe_total", "boe_mmboe">>]

\* field |-> candidate keys, of extract_revenue_data
RevenueFields ==
    [oil_revenue_million |->
        <<"oil_revenue_million_usd", "oil_revenue">>,
     ngl_revenue_million |->
        <<"ngl_revenue_million_usd", "ngl_revenue">>,
     gas_revenue_million |->
        <<"gas_revenue_million_usd", "gas_revenue">>,
     total_revenue_million |->
        <<"total_revenue_million_usd", "total_revenue">>,
     revenue_per_boe |->
        <<"revenue_per_boe_usd", "revenue_per_boe">>]

\* field |-> candidate keys, of extract_pricing_data
PricingFields ==
    [realized_price_oil_per_bbl |->
        <<"realized_price_oil_usd_per_bbl", "oil_price_realized", "oil_price_per_bbl">>,
     realized_price_ngl_per_bbl |->
        <<"realized_price_ngl_usd_per_bbl", "ngl_price_realized", "ngl_price_per_bbl">>,
     realized_price_gas_per_mcf |->
        <<"realized_price_gas_usd_per_mcf", "gas_price_realized", "gas_price_per_mcf">>,
     realized_price_boe |->
        <<"realized_price_boe_usd_per_boe", "boe_price_realized", "boe_price">>]

\* the fields extract_activity_data reads, each under its own name
ActivityFields ==
    [drilling_rigs |->
        <<"drilling_rigs">>,
     gross_wells_drilled |->
        <<"gross_wells_drilled">>,
     gross_wells_completed |->
        <<"gross_wells_completed">>,
     gross_wells_til |->
        <<"gross_wells_til">>,
     net_wells_til |->
        <<"net_wells_til">>,
     avg_lateral_length_drilled |->
        <<"avg_lateral_length_drilled">>,
     avg_lateral_length_completed |->
        <<"avg_lateral_length_completed">>,
     working_interest_percent |->
        <<"working_interest_percent">>]

\* cost_fields of extract_cost_data, then its three capex fields with fallback
CostFields ==
    [production_cost_per_boe |->
        <<"production_cost_per_boe">>,
     lease_operating_expense_per_boe |->
        <<"lease_operating_expense_per_boe">>,
     transportation_cost_per_boe |->
        <<"transportation_cost_per_boe">>,
     production_taxes_per_boe |->
        <<"production_taxes_per_boe">>,
     ddna_per_boe |->
        <<"ddna_per_boe">>,
     development_capex_million |->
        <<"development_capex_million_usd", "development_capex">>,
     exploration_capex_million |->
        <<"exploration_capex_million_usd", "exploration_capex">>,
     total_capex_million |->
        <<"total_capex_million_usd", "total_capex">>]

FieldNames(fields) == DOMAIN fields

\* costs.get(k1, costs.get(k2, '')) / activity.get(field, ''), then
\* parse_simplified_value; .get raises AttributeError when the group is null
get_with_default(group, keys) ==
    IF ~IsDict(group) THEN Raised
    ELSE IF Has(group, keys[1]) THEN parse_simplified_value(group.m[keys[1]])
    ELSE IF Len(keys) > 1 /\ Has(group, keys[2]) THEN parse_simplified_value(group.m[keys[2]])
    ELSE parse_simplified_value(Str(<<>>))

\* the dict a group builder returns: every field resolved with .get(key, '')
\* (activity, costs) or with get_value_from_dict (production, revenue, pricing);
\* an exception in any field propagates
BuildGroup(group, fields, with_default) ==
    LET out == [f \in FieldNames(fields) |->
                   IF with_default THEN get_with_default(group, fields[f])
                   ELSE get_value_from_dict(group, fields[f])]
    IN  IF \E f \in FieldNames(fields) : out[f] = Raised THEN Raised ELSE Dict(out)

\* 'not filing_data or <group> not in filing_data'
GroupMissing(fd, g) == ~Truthy(fd) \/ ~Has(fd, g)

extract_production_data(fd) ==
    IF GroupMissing(fd, "production") THEN EmptyDict
    ELSE BuildGroup(fd.m["production"], ProductionFields, FALSE)

extract_activity_data(fd) ==
    IF GroupMissing(fd, "activity") THEN EmptyDict
    ELSE BuildGroup(fd.m["activity"], ActivityFields, TRUE)

extract_revenue_data(fd) ==
    IF GroupMissing(fd, "revenue") THEN EmptyDict
    ELSE BuildGroup(fd.m["revenue"], RevenueFields, FALSE)

\* extract_pricing_data looking for a 'pricing' group of its own
extract_pricing_data_own_group(fd) ==
    IF GroupMissing(fd, "pricing") THEN EmptyDict
    ELSE BuildGroup(fd.m["pricing"], PricingFields, FALSE)

extract_pricing_data(fd) ==
    IF GroupMissing(fd, "revenue") THEN EmptyDict
    ELSE BuildGroup(fd.m["revenue"], PricingFields, FALSE)

extract_cost_data(fd) ==
    IF GroupMissing(fd, "costs") THEN EmptyDict
    ELSE BuildGroup(fd.m["costs"], CostFields, TRUE)

---------------------------------------------------------------------------
(* parse_json_file *)

\* basins normalized into production MetricValues, basin by basin
basins_dict_normalized(fd) ==
    LET raw == Get(fd, "basins", EmptyDict)
    IN  Dict([b \in DOMAIN raw.m |->
                 BuildGroup(raw.m[b], ProductionFields, FALSE)])

\* basins_dict = filing_data.get('basins', {}): the raw object, as emitted
basins_dict(fd) == Get(fd, "basins", EmptyDict)

\* The persisted JSON artifact save_output_file writes for one filing.
Artifact(ticker, name, cik, ftype, fdate, fd) ==
    [companyName |-> ticker, companyFullName |-> name, cik |-> cik,
     fileType |-> ftype, secFilingDate |-> fdate, data |-> fd]

\* parse_json_file on the artifact a: the canonical record; None when the
\* data is empty; Raised stands for the except branch (the error is printed
\* and None is returned).  filing_data.get raises when the data is no dict.
parse_json_file(a) ==
    LET fd == a.data
    IN  IF ~Truthy(fd) THEN None
        ELSE IF ~IsDict(fd) THEN Raised
        ELSE LET production == extract_production_data(fd)
                 activity   == extract_activity_data(fd)
                 revenue    == extract_revenue_data(fd)
                 pricing    == extract_pricing_data(fd)
                 costs      == extract_cost_data(fd)
             IN  IF Raised \in {production, activity, revenue, pricing, costs}
                 THEN Raised
                 ELSE [kind |-> "record",
                       company_info |->
                           [ticker |-> a.companyName,
                            cik |-> a.cik,
                            company_name |-> a.companyFullName,
                            filing_type |-> a.fileType,
                            filing_date |-> a.secFilingDate,
                            time_period |-> Get(fd, "time_period", Str(<<>>)),
                            quarter |-> Get(fd, "quarter", Str(<<>>)),
                            year |-> Get(fd, "year", Str(<<>>))],
                       production |-> production,
                       activity |-> activity,
                       revenue |-> revenue,
                       pricing |-> pricing,
                       costs |-> costs,
                       basins |-> basins_dict(fd),
                       raw_filing_data |-> fd]

---------------------------------------------------------------------------
(* The relational store: create_database_tables, check_duplicate_filing,    *)
(* insert_data_to_database.  A table is the set of its rows; a row holds its *)
(* identifying columns and, under cols, its metric columns.                 *)

\* the six tables keyed by UNIQUE(ticker, filing_date, filing_type)
FilingTables ==
    {"company_summary", "production_data", "activity_wells", "revenue_data",
     "realized_prices", "cost_data"}

\* with basin_data, keyed by UNIQUE(ticker, sec_filing_date, file_type, basin_name)
TableNames == FilingTables \cup {"basin_data"}

\* the tables right after create_database_tables on a new database
EmptyTables == [t \in TableNames |-> {}]

\* column |-> entry of data['production'], of the production_data INSERT
ProductionColumns ==
    [oil_mbbl_per_day |-> "oil_mbbl_per_day",
     ngl_mbbl_per_day |-> "ngl_mbbl_per_day",
     gas_mmcf_per_day |-> "gas_mmcf_per_day",
     boe_mboe_per_day |-> "boe_mboe_per_day",
     oil_mmbls_total |-> "oil_mmbls_total",
     ngl_mmbls_total |-> "ngl_mmbls_total",
     gas_bcf_total |-> "gas_bcf_total",
     boe_mmboe_total |-> "boe_mmboe_total"]

\* column |-> entry of data['activity'], of the activity_wells INSERT
ActivityColumns ==
    [drilling_rigs |-> "drilling_rigs",
     gross_wells_drilled |-> "gross_wells_drilled",
     gross_wells_completed |-> "gross_wells_completed",
     gross_wells_til |-> "gross_wells_til",
     net_wells_til |-> "net_wells_til",
     avg_lateral_length_drilled |-> "avg_lateral_length_drilled",
     avg_lateral_length_completed |-> "avg_lateral_length_completed",
     working_interest_percent |-> "working_interest_percent"]

\* column |-> entry of data['revenue'], of the revenue_data INSERT
RevenueColumns ==
    [oil_revenue |-> "oil_revenue_million",
     ngl_revenue |-> "ngl_revenue_million",
     gas_revenue |-> "gas_revenue_million",
     total_revenue |-> "total_revenue_million",
     revenue_per_boe |-> "revenue_per_boe"]

\* column |-> entry of data['pricing'], of the realized_prices INSERT
PricingColumns ==
    [oil_price |-> "realized_price_oil_per_bbl",
     ngl_price |-> "realized_price_ngl_per_bbl",
     gas_price |-> "realized_price_gas_per_mcf",
     boe_price |-> "realized_price_boe"]

\* column |-> entry of data['costs'], of the cost_data INSERT
CostColumns ==
    [production_cost_per_boe |-> "production_cost_per_boe",
     lease_operating_expense_per_boe |-> "lease_operating_expense_per_boe",
     transportation_cost_per_boe |-> "transportation_cost_per_boe",
     production_taxes_per_boe |-> "production_taxes_per_boe",
     development_capex |-> "development_capex_million",
     exploration_capex |-> "exploration_capex_million",
     total_capex |-> "total_capex_million",
     ddna_per_boe |-> "ddna_per_boe"]

\* column |-> key of the basin's raw object, of the basin_data INSERT
BasinColumns ==
    [gas_reserves |-> "gas_production_bcf_total",
     gas_per_day |-> "gas_production_mmcf_per_day",
     oil_reserves |-> "oil_production_mmbl_total",
     oil_per_day |-> "oil_production_mbbl_per_day",
     ngl_reserves |-> "ngl_production_mmbl_total",
     ngl_per_day |-> "ngl_production_mbbl_per_day",
     total_boe |-> "total_boe_mmboe_total",
     boe_per_day |-> "total_boe_mboe_per_day"]

\* <<table, group of the canonical record, columns>> of the five metric INSERTs
MetricTables ==
    << <<"production_data", "production", ProductionColumns>>,
       <<"activity_wells", "activity", ActivityColumns>>,
       <<"revenue_data", "revenue", RevenueColumns>>,
       <<"realized_prices", "pricing", PricingColumns>>,
       <<"cost_data", "costs", CostColumns>> >>

\* clean_val handing every value on as it is
clean_val_unchanged(val) == val

\* Convert 'Not found' or empty values to NULL
clean_val(val) == IF ~Truthy(val) \/ val = Str(s_not_found) THEN None ELSE val

\* group.get(f + '_str'): the display entry of field f, None when the group
\* dict lacks it
GetDisplay(group, f) == IF Has(group, f) THEN group.m[f].str ELSE None

\* the metric columns of one INSERT, each through clean_val
MetricCols(group, columns) ==
    [c \in DOMAIN columns |-> clean_val(GetDisplay(group, columns[c]))]

\* the basin columns: basin_data.get(key, 'Not found') through clean_val
BasinCols(basin_data) ==
    [c \in DOMAIN BasinColumns |->
        clean_val(Get(basin_data, BasinColumns[c], Str(s_not_found)))]

\* the columns of the UNIQUE constraint of a row (basin is "" outside basin_data)
RowKey(row) == <<row.ticker, row.filing_date, row.filing_type, row.basin_name>>

\* INSERT ... ON CONFLICT (<unique columns>) DO UPDATE SET <set_columns> = EXCLUDED.*
Upsert(rows, new, set_columns) ==
    IF \E r \in rows : RowKey(r) = RowKey(new)
    THEN {IF RowKey(r) = RowKey(new)
          THEN [f \in DOMAIN r |-> IF f \in set_columns THEN new[f] ELSE r[f]]
          ELSE r : r \in rows}
    ELSE rows \cup {new}

\* check_duplicate_filing matching the filing type and date of any company
check_duplicate_filing_any_company(company_name, filing_type, filing_date, tables) ==
    \E r \in tables["company_summary"] :
        /\ r.filing_type = filing_type
        /\ r.filing_date = filing_date

\* check_duplicate_filing that never finds a duplicate
check_duplicate_filing_never(company_name, filing_type, filing_date, tables) == FALSE

\* SELECT COUNT(*) FROM company_summary WHERE company_name = .. AND
\* filing_type = .. AND filing_date = ..; count > 0
check_duplicate_filing(company_name, filing_type, filing_date, tables) ==
    \E r \in tables["company_summary"] :
        /\ r.company_name = company_name
        /\ r.filing_type = filing_type
        /\ r.filing_date = filing_date

\* the row of one metric INSERT (only production_data has a time_period)
MetricRow(table, info, group, columns) ==
    IF table = "production_data"
    THEN [ticker |-> info.ticker, company_name |-> info.company_name,
          filing_type |-> info.filing_type, filing_date |-> info.filing_date,
          basin_name |-> "", time_period |-> info.time_period,
          quarter |-> info.quarter, year |-> info.year,
          cols |-> MetricCols(group, columns)]
    ELSE [ticker |-> info.ticker, company_name |-> info.company_name,
          filing_type |-> info.filing_type, filing_date |-> info.filing_date,
          basin_name |-> "", quarter |-> info.quarter, year |-> info.year,
          cols |-> MetricCols(group, columns)]

RECURSIVE InsertMetricTables_no_cost_data(_, _, _)
\* the metric INSERTs without the last one, into cost_data
InsertMetricTables_no_cost_data(tables, data, i) ==
    IF i >= Len(MetricTables) THEN tables
    ELSE LET t == MetricTables[i]
         IN  InsertMetricTables_no_cost_data(
                 [tables EXCEPT ![t[1]] =
                     Upsert(@, MetricRow(t[1], data.company_info, data[t[2]], t[3]),
                            {"cols"})],
                 data, i + 1)

RECURSIVE InsertMetricTables(_, _, _)
\* the five metric INSERTs of one record, from the i-th on
InsertMetricTables(tables, data, i) ==
    IF i > Len(MetricTables) THEN tables
    ELSE LET t == MetricTables[i]
         IN  InsertMetricTables(
                 [tables EXCEPT ![t[1]] =
                     Upsert(@, MetricRow(t[1], data.company_info, data[t[2]], t[3]),
                            {"cols"})],
                 data, i + 1)

\* the basin INSERTs of one record: a basin that is no dict is skipped
InsertBasins(tables, data) ==
    LET info   == data.company_info
        names  == {b \in DOMAIN data.basins.m : IsDict(data.basins.m[b])}
        new(b) == [ticker |-> info.ticker, company_name |-> info.company_name,
                   filing_type |-> info.filing_type, filing_date |-> info.filing_date,
                   basin_name |-> b, cols |-> BasinCols(data.basins.m[b])]
        kept   == {r \in tables["basin_data"] :
                      \A b \in names : RowKey(r) # RowKey(new(b))}
        hit(b) == {r \in tables["basin_data"] : RowKey(r) = RowKey(new(b))}
    IN  [tables EXCEPT !["basin_data"] =
            kept \cup UNION {Upsert(hit(b), new(b), {"cols"}) : b \in names}]

\* the statements of one record that is no duplicate
InsertRecord(tables, data) ==
    LET info    == data.company_info
        summary == [ticker |-> info.ticker, cik |-> info.cik,
                    company_name |-> info.company_name,
                    filing_type |-> info.filing_type,
                    filing_date |-> info.filing_date,
                    basin_name |-> "", time_period |-> info.time_period]
        s1 == [tables EXCEPT !["company_summary"] =
                  Upsert(@, summary, {"cik", "company_name", "time_period"})]
    IN  InsertBasins(InsertMetricTables(s1, data, 1), data)

RECURSIVE InsertLoop(_, _, _)
\* 'for data in all_data' from the i-th record on, inside one transaction:
\* the tables it leaves and, per record, whether it was skipped as duplicate
InsertLoop(tables, all_data, i) ==
    IF i > Len(all_data) THEN [tables |-> tables, skipped |-> <<>>]
    ELSE LET info == all_data[i].company_info
             dup  == check_duplicate_filing(info.company_name, info.filing_type,
                                            info.filing_date, tables)
             rest == InsertLoop(IF dup THEN tables ELSE InsertRecord(tables, all_data[i]),
                                all_data, i + 1)
         IN  [tables |-> rest.tables, skipped |-> <<dup>> \o rest.skipped]

\* what the statements of a call have written inside its transaction when a
\* statement of record k + 1 raises psycopg2.Error (k = Len(all_data): when
\* conn.commit() raises): the rows of the first k records
Written(tables, all_data, k) == InsertLoop(tables, SubSeq(all_data, 1, k), 1).tables

\* a rollback that leaves the rows written so far in the tables
rollback_keeping(written, before) == written

\* conn.rollback(): the tables as they were when the transaction began
rollback(written, before) == before

---------------------------------------------------------------------------
(* Inputs of the value parser *)

\* characters of the exhaustively enumerated strings
Alphabet == {"1", "0", ",", ".", "-", "$", "M"}

BoundedStrings == UNION {[1..n -> Alphabet] : n \in 0..MaxLen}

UpperChar(c) ==
    CASE c = "n" -> "N" [] c = "o" -> "O" [] c = "t" -> "T" [] c = "f" -> "F"
      [] c = "u" -> "U" [] c = "d" -> "D" [] c = "m" -> "M" [] c = "e" -> "E"
      [] OTHER -> c

RECURSIVE CaseVariants(_)
\* s in every letter case
CaseVariants(s) ==
    IF s = <<>> THEN {<<>>}
    ELSE {<<c>> \o t : c \in {Head(s), UpperChar(Head(s))}, t \in CaseVariants(Tail(s))}

\* every spelling of a sentinel string
SentinelStrings == UNION {CaseVariants(s) : s \in SentinelList}

s_148_4 == <<"1", "4", "8", ".", "4", " ", "M", "B", "b", "l", "/", "d">>
s_1774_million == <<"$", "1", ",", "7", "7", "4", " ", "m", "i", "l", "l", "i", "o", "n">>
s_1774_plain == <<"1", "7", "7", "4", " ", "m", "i", "l", "l", "i", "o", "n">>
s_pct == <<"-", "1", "2", ".", "5", "0", "%">>
s_million_grouped == <<"1", ",", "2", "3", "4", ",", "5", "6", "7", ".", "8", "9">>
s_text == <<"s", "e", "e", " ", "n", "o", "t", "e", " ", "7">>
s_words == <<"n", "o", "t", " ", "r", "e", "p", "o", "r", "t", "e", "d">>
s_unit == <<"M", "B", "b", "l", "/", "d">>

NamedStrings ==
    {s_148_4, s_1774_million, s_1774_plain, s_pct, s_million_grouped, s_text, s_words}

StringInputs == BoundedStrings \cup SentinelStrings \cup NamedStrings

\* JSON numbers and legacy {value, unit} objects a model response may hold
OtherInputs ==
    {None, Float(0, 0), Float(7, 0), Float(-35, 1)}
    \cup {EmptyDict, Dict([unit |-> Str(s_unit)])}
    \cup {Dict([value |-> Str(v)]) : v \in {s_not_found, <<>>, <<"1", "2">>}}
    \cup {Dict([value |-> Str(v), unit |-> Str(s_unit)]) :
             v \in {s_not_found, <<>>, <<"1", "2">>}}

ValueInputs == {Str(s) : s \in StringInputs} \cup OtherInputs

---------------------------------------------------------------------------
(* Inputs of get_value_from_dict *)

CandidateKeys ==
    {"realized_price_oil_usd_per_bbl", "oil_price_realized", "oil_price_per_bbl"}

FieldValues == {Str(s_not_found), Str(s_148_4), Str(s_1774_million), None}

\* every dict over a set of keys with values from vals
DictsOver(keys, vals) ==
    {Dict(m) : m \in UNION {[K -> vals] : K \in SUBSET keys}}

DictInputs == DictsOver(CandidateKeys, FieldValues) \cup {None}

KeyLists == UNION {[1..n -> CandidateKeys] : n \in 0..MaxKeys}

---------------------------------------------------------------------------
(* Inputs of parse_json_file: the 'data' object of an artifact *)

MetricInputs == {Str(s_not_found), Str(s_148_4)}

\* a group as the model may emit it: a dict over some of its keys, or null
ProductionInputs ==
    DictsOver({"oil_production_mbbl_per_day", "oil_mbbl_per_day"}, MetricInputs) \cup {None}
ActivityInputs == DictsOver({"drilling_rigs"}, MetricInputs) \cup {None}
RevenueInputs == DictsOver({"oil_revenue", "oil_price_realized"}, MetricInputs) \cup {None}
CostInputs ==
    DictsOver({"development_capex_million_usd", "development_capex"},
              {Str(s_not_found), Str(s_1774_million)}) \cup {None}

BasinPermian ==
    Dict([oil_production_mbbl_per_day |-> Str(s_148_4),
          gas_production_mmcf_per_day |-> Str(s_not_found)])
BasinDelaware == Dict([oil_production_mbbl_per_day |-> Str(s_not_found)])

BasinsInputs ==
    {EmptyDict, Dict([Permian |-> BasinPermian]),
     Dict([Permian |-> BasinPermian, Delaware |-> BasinDelaware])}

\* a key the data does not hold
Missing == [kind |-> "missing"]

\* the dict holding exactly the entries of sel that are not Missing
DictOfPresent(sel) ==
    Dict([k \in {k \in DOMAIN sel : sel[k] # Missing} |-> sel[k]])

FilingDataInputs ==
    {DictOfPresent([production |-> p, activity |-> a, revenue |-> r,
                    costs |-> c, basins |-> b]) :
        p \in ProductionInputs \cup {Missing},
        a \in ActivityInputs \cup {Missing},
        r \in RevenueInputs \cup {Missing},
        c \in CostInputs \cup {Missing},
        b \in BasinsInputs \cup {Missing}}
    \cup {None, Str(s_text)}

---------------------------------------------------------------------------
(* Inputs of insert_data_to_database: the canonical records main can build *)

\* entries of COMPANY_DATABASE
Companies ==
    {[ticker |-> "FANG", name |-> "Diamondback Energy", cik |-> "0001539838"],
     [ticker |-> "PR", name |-> "Permian Resources", cik |-> "0001658566"]}

\* the filing kinds main processes
FilingTypes == {"10-Q", "10-K"}

FilingDates == {"2025-05-06"}

\* two extraction results for a filing, with different metric values
StoredDataA ==
    Dict([production |-> Dict([oil_production_mbbl_per_day |-> Str(s_148_4)]),
          revenue |-> Dict([oil_revenue |-> Str(s_not_found)]),
          basins |-> Dict([Permian |-> BasinPermian])])
StoredDataB ==
    Dict([production |-> Dict([oil_production_mbbl_per_day |-> Str(s_not_found),
                               oil_mbbl_per_day |-> Str(s_148_4)]),
          activity |-> Dict([drilling_rigs |-> Str(<<"1", "2">>)]),
          revenue |-> Dict([oil_revenue |-> Str(s_1774_million),
                            oil_price_realized |-> Str(s_pct)]),
          costs |-> Dict([development_capex |-> Str(s_1774_plain)]),
          basins |-> Dict([Permian |-> BasinDelaware, Delaware |-> BasinDelaware])])

\* the filings the modelled runs select: <<ticker, kind>>
SelectedFilings == {<<"FANG", "10-Q">>, <<"FANG", "10-K">>, <<"PR", "10-Q">>}

\* the artifact save_output_file writes for filing f = <<ticker, kind>>
ArtifactOf(f, fd, d) ==
    LET c == CHOOSE c \in Companies : c.ticker = f[1]
    IN  Artifact(c.ticker, c.name, c.cik, f[2], fd, d)

\* the artifact of every selected filing as extracted the first time (A),
\* and of the FANG 10-Q also as extracted again with other values (B)
ArtifactInputs ==
    {ArtifactOf(f, fd, StoredDataA) : f \in SelectedFilings, fd \in FilingDates}
    \cup {ArtifactOf(<<"FANG", "10-Q">>, fd, StoredDataB) : fd \in FilingDates}

RecordInputs == {parse_json_file(a) : a \in ArtifactInputs}

Batches == UNION {[1..n -> RecordInputs] : n \in 1..MaxBatch}

---------------------------------------------------------------------------
(* The value parser applied to one input *)

IdleValue == value = NotRun /\ result = NotRun
IdleField == data_dict = NotRun /\ possible_keys = <<>> /\ found = NotRun
IdleRecord == filing_data = NotRun /\ record = NotRun
IdleStore == db = EmptyTables /\ call = NotRun
IdleMetrics == response = NotRun /\ invocations = 0 /\ extraction_result = NotRun
IdleList == list_request = NotRun /\ index_response = NotRun /\ filings = NotRun
IdleDoc == doc_request = NotRun /\ documents_page = NotRun /\ doc_url = NotRun
IdleText == download = NotRun /\ text_result = NotRun /\ text_files = {}
IdleMain ==
    /\ conn = "none" /\ db_enabled = FALSE /\ company = NotRun
    /\ filings_to_process = <<>> /\ pc = NotRun /\ effects = {}
    /\ results = NotRun /\ parsed_data = NotRun /\ outputs = {}
IdlePipeline == IdleMetrics /\ IdleList /\ IdleDoc /\ IdleText /\ IdleMain
IdleNormalizer == IdleValue /\ IdleField /\ IdleRecord

InitValue ==
    /\ value \in ValueInputs
    /\ result = NotRun
    /\ IdleField
    /\ IdleRecord
    /\ IdleStore
    /\ IdlePipeline

ParseValue ==
    /\ result = NotRun
    /\ result' = parse_simplified_value(value)
    /\ UNCHANGED <<value, data_dict, possible_keys, found, filing_data, record,
                   db, call, pipelineVars>>

NextValue == ParseValue

SpecValue == InitValue /\ [][NextValue]_vars

---------------------------------------------------------------------------
(* get_value_from_dict applied to one group mapping and candidate list *)

InitField ==
    /\ data_dict \in DictInputs
    /\ possible_keys \in KeyLists
    /\ found = NotRun
    /\ IdleValue
    /\ IdleRecord
    /\ IdleStore
    /\ IdlePipeline

ResolveField ==
    /\ found = NotRun
    /\ found' = get_value_from_dict(data_dict, possible_keys)
    /\ UNCHANGED <<value, result, data_dict, possible_keys, filing_data, record,
                   db, call, pipelineVars>>

NextField == ResolveField

SpecField == InitField /\ [][NextField]_vars

---------------------------------------------------------------------------
(* parse_json_file applied to one artifact *)

InitRecord ==
    /\ filing_data \in FilingDataInputs
    /\ record = NotRun
    /\ IdleValue
    /\ IdleField
    /\ IdleStore
    /\ IdlePipeline

ParseJsonFile ==
    /\ record = NotRun
    /\ record' = parse_json_file(
                     Artifact("FANG", "Diamondback Energy", "0001539838",
                              "10-Q", "2025-05-06", filing_data))
    /\ UNCHANGED <<value, result, data_dict, possible_keys, found, filing_data,
                   db, call, pipelineVars>>

NextRecord == ParseJsonFile

SpecRecord == InitRecord /\ [][NextRecord]_vars

---------------------------------------------------------------------------
(* The store under any sequence of insert_data_to_database calls *)

Init ==
    /\ db = EmptyTables
    /\ call = NotRun
    /\ IdleValue
    /\ IdleField
    /\ IdleRecord
    /\ IdlePipeline

\* One call insert_data_to_database(all_data, conn).  Either every statement
\* succeeds and the transaction is committed, or some statement raises
\* psycopg2.Error, the transaction is rolled back and False is returned.
InsertCall(all_data) ==
    LET out == InsertLoop(db, all_data, 1)
    IN  \/ /\ db' = out.tables
           /\ call' = [kind |-> "call", all_data |-> all_data, ret |-> TRUE,
                       skipped |-> out.skipped, before |-> db,
                       written |-> out.tables]
        \/ \E k \in 0..Len(all_data) :
             LET written == Written(db, all_data, k)
             IN  /\ db' = rollback(written, db)
                 /\ call' = [kind |-> "call", all_data |-> all_data,
                             ret |-> FALSE, skipped |-> <<>>, before |-> db,
                             written |-> written]

insert_data_to_database ==
    \E all_data \in Batches :
      /\ InsertCall(all_data)
      /\ UNCHANGED <<value, result, data_dict, possible_keys, found,
                     filing_data, record, pipelineVars>>

Next == insert_data_to_database

Spec == Init /\ [][Next]_vars

---------------------------------------------------------------------------
(* extract_metrics.  The text of an LLM response is a sequence of tokens:   *)
(* a code fence of three backquotes, the label json, a whitespace           *)
(* character, the JSON object {} and the digit 1.                           *)

\* three backquotes
FENCE == "FENCE"
LABEL == "json"
SPACE == " "
OBJECT == "{}"
ONE == "1"

\* raised by json.loads
JSONDecodeError == [kind |-> "JSONDecodeError"]

\* json.loads(s): whitespace around the value is skipped; the value is the
\* object {} or an integer written with the digit 1; anything else, the empty
\* text and extra data after the value raise JSONDecodeError
json_loads(s) ==
    LET core == RStrip(LStrip(s))
    IN  IF core = <<OBJECT>> THEN EmptyDict
        ELSE IF core # <<>> /\ \A i \in DOMAIN core : core[i] = ONE
        THEN Float(DigitsToNat(core, 0), 0)
        ELSE JSONDecodeError

\* re.search(r'```json\s*(.*?)\s*```', result, re.DOTALL): the leftmost
\* fence followed by the label and, later, by another fence; group(1) runs
\* from the first non-blank after the label to the last non-blank before the
\* next fence.  None when there is no match.
json_match(s) ==
    LET opens   == {i \in 1..Len(s) - 2 :
                      /\ s[i] = FENCE
                      /\ s[i + 1] = LABEL
                      /\ \E k \in i + 2..Len(s) : s[k] = FENCE}
    IN  IF opens = {} THEN None
        ELSE LET i == CHOOSE i \in opens : \A j \in opens : i <= j
                 k == CHOOSE k \in i + 2..Len(s) :
                        /\ s[k] = FENCE
                        /\ \A j \in i + 2..k - 1 : s[j] # FENCE
             IN  Str(RStrip(LStrip(SubSeq(s, i + 2, k - 1))))

\* what rag_chain.invoke does when called: returns a text or raises
Returns(text) == [kind |-> "returns", text |-> text]
Raises(message) == [kind |-> "raises", message |-> message]

\* extract_metrics that parses the whole response, fence or not
extract_metrics_no_fence(chain) ==
    LET outcome == chain[1]
    IN  IF outcome.kind = "raises"
        THEN [ret |-> [success |-> FALSE, error |-> outcome.message], invoked |-> 1]
        ELSE LET parsed == json_loads(outcome.text)
             IN  [ret |-> IF parsed = JSONDecodeError
                          THEN [success |-> TRUE, data |-> Str(outcome.text),
                                format |-> "text"]
                          ELSE [success |-> TRUE, data |-> parsed],
                  invoked |-> 1]

\* extract_metrics that invokes the chain again after an error
extract_metrics_retry(chain) ==
    LET again == IF chain[1].kind = "raises" /\ Len(chain) > 1 THEN 2 ELSE 1
        outcome == chain[again]
    IN  IF outcome.kind = "raises"
        THEN [ret |-> [success |-> FALSE, error |-> outcome.message],
              invoked |-> again]
        ELSE LET m      == json_match(outcome.text)
                 text   == IF m # None THEN m.s ELSE outcome.text
                 parsed == json_loads(text)
             IN  [ret |-> IF parsed = JSONDecodeError
                          THEN [success |-> TRUE, data |-> Str(text),
                                format |-> "text"]
                          ELSE [success |-> TRUE, data |-> parsed],
                  invoked |-> again]

\* extract_metrics(rag_chain, filing_type), chain being what the successive
\* rag_chain.invoke calls would do: the value returned and the number of
\* invocations made
extract_metrics(chain) ==
    LET outcome == chain[1]
    IN  IF outcome.kind = "raises"
        THEN [ret |-> [success |-> FALSE, error |-> outcome.message], invoked |-> 1]
        ELSE LET m      == json_match(outcome.text)
                 text   == IF m # None THEN m.s ELSE outcome.text
                 parsed == json_loads(text)
             IN  [ret |-> IF parsed = JSONDecodeError
                          THEN [success |-> TRUE, data |-> Str(text),
                                format |-> "text"]
                          ELSE [success |-> TRUE, data |-> parsed],
                  invoked |-> 1]

ResponseTokens == {FENCE, LABEL, SPACE, OBJECT, ONE}

ResponseTexts == UNION {[1..n -> ResponseTokens] : n \in 0..MaxResponse}

\* prose, then two json blocks with different values, then prose
two_blocks ==
    <<ONE, SPACE, FENCE, LABEL, SPACE, OBJECT, SPACE, FENCE, SPACE,
      FENCE, LABEL, ONE, FENCE, LABEL>>

\* str(e) of the errors the chain raises: timeout, authentication, rate limit
ChainErrors ==
    {"Request timed out.", "Incorrect API key provided.", "Rate limit reached."}

\* a chain that answers, and a chain that fails and would answer or fail
\* again if it were invoked again
ChainInputs ==
    {<<Returns(s)>> : s \in ResponseTexts \cup {two_blocks}}
    \cup {<<Raises(e), o>> :
            e \in ChainErrors,
            o \in {Returns(<<OBJECT>>), Returns(<<FENCE>>), Raises("Rate limit reached.")}}

InitMetrics ==
    /\ response \in ChainInputs
    /\ invocations = 0
    /\ extraction_result = NotRun
    /\ IdleNormalizer /\ IdleStore
    /\ IdleList /\ IdleDoc /\ IdleText /\ IdleMain

ExtractMetrics ==
    /\ extraction_result = NotRun
    /\ LET out == extract_metrics(response)
       IN  /\ extraction_result' = out.ret
           /\ invocations' = invocations + out.invoked
    /\ UNCHANGED <<normalizerVars, storeVars, response, listVars, docVars,
                   textVars, mainVars>>

NextMetrics == ExtractMetrics

SpecMetrics == InitMetrics /\ [][NextMetrics]_vars

---------------------------------------------------------------------------
(* SECFilingFetcher: substring tests and the answers of www.sec.gov *)

\* sub in s
Contains(s, sub) ==
    \E i \in 1..Len(s) - Len(sub) + 1 : SubSeq(s, i, i + Len(sub) - 1) = sub

\* s.startswith(sub)
StartsWith(s, sub) == Len(sub) <= Len(s) /\ SubSeq(s, 1, Len(sub)) = sub

\* re.search(sub + '$', s) for a literal sub that ends s
EndsWith(s, sub) ==
    Len(sub) <= Len(s) /\ SubSeq(s, Len(s) - Len(sub) + 1, Len(s)) = sub

\* requests.get(...) raising, or raise_for_status() raising on a status
\* that is not 2xx
RequestErrors == {"ConnectionError", "Timeout", "HTTPError"}
RequestError(e) == [kind |-> "error", error |-> e]

\* a page that was fetched: found says whether soup.find('table', ...) finds
\* the table looked for, table is its rows, the header first
Page(table) == [kind |-> "page", found |-> TRUE, table |-> table]
NoTablePage == [kind |-> "page", found |-> FALSE, table |-> <<>>]

\* a Python list
List(items) == [kind |-> "list", items |-> items]

\* the header row of a table: th cells only
HeaderRow == [cells |-> 0, link |-> "none"]

\* table.find_all('tr')[1:]
DataRows(table) == IF table = <<>> THEN <<>> ELSE Tail(table)

s_10Q == <<"1", "0", "-", "Q">>
s_10K == <<"1", "0", "-", "K">>
s_10QA == <<"1", "0", "-", "Q", "/", "A">>
s_10Q_padded == <<" ", "1", "0", "-", "Q", " ">>

BASE_URL == "https://www.sec.gov"

---------------------------------------------------------------------------
(* SECFilingFetcher.get_filings_list *)

\* a row of the filings table: the number of td cells, the text of the kind
\* cell, the documents link of the second cell ("none": no <a>, "no_href":
\* an <a> without href, "href": an <a> with href, given by its path
\* segments), the text of the date cell
FilingRow(cells, kind, link, href, date) ==
    [cells |-> cells, kind |-> kind, link |-> link, href |-> href, date |-> date]

\* the filing reference appended for a row
FilingReference(row) ==
    [type |-> RStrip(LStrip(row.kind)),
     date |-> row.date,
     accession |-> row.href[Len(row.href)],
     documents_url |-> <<BASE_URL>> \o row.href]

\* the row passes 'len(cols) >= 4', the kind test and 'if documents_link'
RowSelected(row, filing_type) ==
    /\ row.cells >= 4
    /\ RStrip(LStrip(row.kind)) = filing_type
    /\ row.link # "none"

\* get_filings_list that takes every row whose kind starts with filing_type
get_filings_list_startswith(filing_type, count, answer) ==
    IF answer.kind = "error" \/ ~answer.found THEN List(<<>>)
    ELSE LET rows == DataRows(answer.table)
             sel(row) == /\ row.cells >= 4
                         /\ StartsWith(RStrip(LStrip(row.kind)), filing_type)
                         /\ row.link # "none"
             hits == SelectSeq(rows, sel)
         IN  IF \E i \in DOMAIN hits : hits[i].link = "no_href" THEN List(<<>>)
             ELSE List([i \in DOMAIN hits |-> FilingReference(hits[i])])

\* get_filings_list without its try/except
get_filings_list_raising(filing_type, count, answer) ==
    IF answer.kind = "error" THEN Raised
    ELSE IF ~answer.found THEN List(<<>>)
    ELSE LET rows == DataRows(answer.table)
             hits == SelectSeq(rows, LAMBDA row : RowSelected(row, filing_type))
         IN  IF \E i \in DOMAIN hits : hits[i].link = "no_href" THEN Raised
             ELSE List([i \in DOMAIN hits |-> FilingReference(hits[i])])

\* get_filings_list(filing_type, count) when the index answers with answer.
\* count only goes into the query string.  documents_link['href'] raises
\* KeyError for a link without href: the except branch returns [].
get_filings_list(filing_type, count, answer) ==
    IF answer.kind = "error" THEN List(<<>>)
    ELSE IF ~answer.found THEN List(<<>>)
    ELSE LET rows == DataRows(answer.table)
             hits == SelectSeq(rows, LAMBDA row : RowSelected(row, filing_type))
         IN  IF \E i \in DOMAIN hits : hits[i].link = "no_href" THEN List(<<>>)
             ELSE List([i \in DOMAIN hits |-> FilingReference(hits[i])])

\* rows a filings table can hold
FilingRowInputs ==
    {FilingRow(4, s_10Q, "href", <<"Archives", "a1-index.htm">>, "2025-05-06"),
     FilingRow(5, s_10Q_padded, "href", <<"Archives", "a2-index.htm">>, "2025-02-20"),
     FilingRow(4, s_10QA, "href", <<"Archives", "a3-index.htm">>, "2025-03-01"),
     FilingRow(4, s_10K, "href", <<"Archives", "a4-index.htm">>, "2025-02-26"),
     FilingRow(3, s_10Q, "href", <<"Archives", "a5-index.htm">>, "2024-11-05"),
     FilingRow(4, s_10Q, "none", <<>>, "2024-08-06"),
     FilingRow(4, s_10Q, "no_href", <<>>, "2024-05-02")}

FilingTablesInputs ==
    {<<>>} \cup {<<HeaderRow>> \o rows :
                    rows \in UNION {[1..n -> FilingRowInputs] : n \in 0..MaxRows}}

IndexAnswers ==
    {RequestError(e) : e \in RequestErrors}
    \cup {NoTablePage}
    \cup {Page(table) : table \in FilingTablesInputs}

\* the query's count: small, so that a table can hold more matching rows
CountInputs == {2}

ListRequests ==
    {[filing_type |-> ft, count |-> n] : ft \in {s_10Q, s_10K}, n \in CountInputs}

---------------------------------------------------------------------------
(* SECFilingFetcher.get_filing_document_url *)

\* any(re.search(p, doc_href, re.IGNORECASE) for p in [r'\.htm$', r'\.html$'])
is_primary(doc_href) ==
    LET h == Lower(doc_href)
    IN  EndsWith(h, <<".", "h", "t", "m">>) \/ EndsWith(h, <<".", "h", "t", "m", "l">>)

\* the endings r'\.xsd$', r'\.xml$', r'\.xls$', r'\.xlsx$', r'\.pdf$', r'\.jpg$',
\* r'\.gif$', r'\.png$' of exclude_patterns
ExcludedExtensions ==
    {<<".", "x", "s", "d">>, <<".", "x", "m", "l">>, <<".", "x", "l", "s">>,
     <<".", "x", "l", "s", "x">>, <<".", "p", "d", "f">>, <<".", "j", "p", "g">>,
     <<".", "g", "i", "f">>, <<".", "p", "n", "g">>}

\* re.search(r'ex\d+', h)
MatchesExhibit(h) ==
    \E i \in 1..Len(h) - 2 : h[i] = "e" /\ h[i + 1] = "x" /\ IsDigit(h[i + 2])

\* the exclude patterns matched without re.IGNORECASE
is_excluded_case_sensitive(doc_href) ==
    LET h == doc_href
    IN  \/ Contains(h, <<"i", "n", "d", "e", "x", ".", "h", "t", "m">>)
        \/ Contains(h, <<"_", "h", "t", "m", ".", "x", "m", "l">>)
        \/ \E ext \in ExcludedExtensions : EndsWith(h, ext)
        \/ MatchesExhibit(h)
        \/ Contains(h, <<"g", "r", "a", "p", "h", "i", "c">>)

\* any(re.search(p, doc_href, re.IGNORECASE) for p in exclude_patterns)
is_excluded(doc_href) ==
    LET h == Lower(doc_href)
    IN  \/ Contains(h, <<"i", "n", "d", "e", "x", ".", "h", "t", "m">>)
        \/ Contains(h, <<"_", "h", "t", "m", ".", "x", "m", "l">>)
        \/ \E ext \in ExcludedExtensions : EndsWith(h, ext)
        \/ MatchesExhibit(h)
        \/ Contains(h, <<"g", "r", "a", "p", "h", "i", "c">>)

\* the URL built for doc_href: the href itself when it starts with http,
\* BASE_URL + href when it starts with '/', else the directory of
\* documents_url + '/' + href
full_url(documents_url, doc_href) ==
    [base |-> IF StartsWith(doc_href, <<"h", "t", "t", "p">>) THEN <<>>
              ELSE IF StartsWith(doc_href, <<"/">>) THEN <<BASE_URL>>
              ELSE SubSeq(documents_url, 1, Len(documents_url) - 1),
     href |-> doc_href]

\* the priority given to a candidate
priority(ticker, filing_type, doc_href) ==
    LET h == Lower(doc_href)
    IN  IF Contains(h, Remove(Lower(filing_type), "-")) THEN 3
        ELSE IF Contains(h, Lower(ticker)) THEN 2
        ELSE IF Contains(h, <<"h", "t", "m">>) /\ ~Contains(h, <<"x", "m", "l">>) THEN 1
        ELSE 0

\* a row of the documents table: the number of td cells and the link of the
\* third cell
DocRow(cells, link, href) == [cells |-> cells, link |-> link, href |-> href]

\* the candidate of highest priority that comes last on the page
best_doc_last(candidate_docs) ==
    LET i == CHOOSE i \in DOMAIN candidate_docs :
                \A j \in DOMAIN candidate_docs :
                    \/ candidate_docs[j].priority < candidate_docs[i].priority
                    \/ (candidate_docs[j].priority = candidate_docs[i].priority
                        /\ j <= i)
    IN  candidate_docs[i]

\* candidate_docs.sort(key=priority, reverse=True); candidate_docs[0]: the
\* sort is stable, so the first of the candidates of highest priority
best_doc(candidate_docs) ==
    LET i == CHOOSE i \in DOMAIN candidate_docs :
                \A j \in DOMAIN candidate_docs :
                    \/ candidate_docs[j].priority < candidate_docs[i].priority
                    \/ (candidate_docs[j].priority = candidate_docs[i].priority
                        /\ i <= j)
    IN  candidate_docs[i]

\* get_filing_document_url(documents_url, filing_type) of the fetcher of
\* ticker, when the documents index answers with answer
get_filing_document_url(ticker, documents_url, filing_type, answer) ==
    IF answer.kind = "error" THEN None
    ELSE IF ~answer.found THEN None
    ELSE LET rows == DataRows(answer.table)
             kept == SelectSeq(rows, LAMBDA row :
                        /\ row.cells >= 3
                        /\ row.link = "href"
                        /\ is_primary(row.href)
                        /\ ~is_excluded(row.href))
             candidate_docs ==
                 [i \in DOMAIN kept |->
                     [url |-> full_url(documents_url, kept[i].href),
                      href |-> kept[i].href,
                      priority |-> priority(ticker, filing_type, kept[i].href)]]
         IN  IF candidate_docs = <<>> THEN None
             ELSE best_doc(candidate_docs).url

h_ex10 == <<"e", "x", "1", "0", ".", "h", "t", "m">>
h_kind ==
    <<"c", "o", "m", "p", "a", "n", "y", "-", "1", "0", "q", "-", "2", "0", "2",
      "5", ".", "h", "t", "m">>
h_xbrl == <<"f", "i", "l", "i", "n", "g", "_", "h", "t", "m", ".", "x", "m", "l">>
h_ticker == <<"f", "a", "n", "g", "-", "2", "0", "2", "5", ".", "h", "t", "m">>
h_generic == <<"r", "e", "p", "o", "r", "t", ".", "h", "t", "m">>
h_xmlname == <<"x", "m", "l", "r", "e", "p", "o", "r", "t", ".", "h", "t", "m">>
h_upper == <<"F", "A", "N", "G", "-", "1", "0", "Q", "_", "E", "X", "9", "9", ".", "H", "T", "M">>
h_index == <<"1", "0", "q", "-", "i", "n", "d", "e", "x", ".", "h", "t", "m", "l">>
h_absolute ==
    <<"/", "A", "r", "c", "h", "i", "v", "e", "s", "/", "d", "1", "0", "k", ".",
      "h", "t", "m">>
h_html == <<"m", "a", "i", "n", ".", "h", "t", "m", "l">>
h_pdf == <<"f", "a", "n", "g", "-", "1", "0", "q", ".", "p", "d", "f">>

Hrefs ==
    {h_ex10, h_kind, h_xbrl, h_ticker, h_generic, h_xmlname, h_upper, h_index,
     h_absolute, h_html, h_pdf}

\* rows a documents table can hold
DocRowInputs ==
    {DocRow(3, "href", h) : h \in Hrefs}
    \cup {DocRow(2, "href", h_kind), DocRow(3, "no_href", <<>>)}

DocTablesInputs ==
    {<<>>} \cup {<<HeaderRow>> \o rows :
                    rows \in UNION {[1..n -> DocRowInputs] : n \in 0..MaxLinks}}

DocAnswers ==
    {RequestError(e) : e \in RequestErrors}
    \cup {NoTablePage}
    \cup {Page(table) : table \in DocTablesInputs}

s_FANG == <<"F", "A", "N", "G">>

DocRequests ==
    {[ticker |-> s_FANG, filing_type |-> ft,
      documents_url |-> <<BASE_URL, "Archives", "a1-index.htm">>] :
        ft \in {s_10Q, s_10K}}

---------------------------------------------------------------------------
(* The fetcher asked once: for the list of filings or for a document URL *)

InitFetcher ==
    /\ \/ /\ list_request \in ListRequests
          /\ index_response \in IndexAnswers
          /\ filings = NotRun
          /\ IdleDoc
       \/ /\ doc_request \in DocRequests
          /\ documents_page \in DocAnswers
          /\ doc_url = NotRun
          /\ IdleList
    /\ IdleNormalizer /\ IdleStore
    /\ IdleMetrics /\ IdleText /\ IdleMain

GetFilingsList ==
    /\ list_request # NotRun
    /\ filings = NotRun
    /\ filings' = get_filings_list(list_request.filing_type, list_request.count,
                                   index_response)
    /\ UNCHANGED <<normalizerVars, storeVars, metricsVars, list_request,
                   index_response, docVars, textVars, mainVars>>

GetFilingDocumentUrl ==
    /\ doc_request # NotRun
    /\ doc_url = NotRun
    /\ doc_url' = get_filing_document_url(doc_request.ticker,
                      doc_request.documents_url, doc_request.filing_type,
                      documents_page)
    /\ UNCHANGED <<normalizerVars, storeVars, metricsVars, listVars,
                   doc_request, documents_page, textVars, mainVars>>

NextFetcher == GetFilingsList \/ GetFilingDocumentUrl

SpecFetcher == InitFetcher /\ [][NextFetcher]_vars

---------------------------------------------------------------------------
(* extract_text_from_url.  A text is known by its length only. *)

\* 'if len(clean_text) < 1000'
MinTextLength == 1000
\* 'clean_text[:5000]' of the debug sample
SampleLength == 5000

\* a file left on disk: "text" is output_path, "debug" the debug sample;
\* length is the number of characters of clean_text in it
File(name, length) == [name |-> name, length |-> length]

\* what one call meets: fault is the statement that raises when it is
\* reached ("download": requests.get or raise_for_status, "parse": the
\* primary pass, "write_text" and "write_debug": the two 'with open' blocks),
\* primary and fallback are the lengths of clean_text after each pass
Download(fault, primary, fallback) ==
    [fault |-> fault, primary |-> primary, fallback |-> fallback]

Failed(fallback_ran, files) ==
    [ret |-> FALSE, fallback_ran |-> fallback_ran, files |-> files]

\* extract_text_from_url whose floor lets a text of exactly 1000 characters fail
extract_text_from_url_inclusive(d, partial) ==
    IF d.fault \in {"download", "parse"} THEN Failed(FALSE, {})
    ELSE LET fallback_ran == d.primary <= MinTextLength
             clean_text == IF fallback_ran THEN d.fallback ELSE d.primary
         IN  IF clean_text <= MinTextLength THEN Failed(fallback_ran, {})
             ELSE IF d.fault = "write_text"
             THEN Failed(fallback_ran, IF partial THEN {File("text", 0)} ELSE {})
             ELSE IF d.fault = "write_debug"
             THEN Failed(fallback_ran,
                         {File("text", clean_text)}
                           \cup (IF partial THEN {File("debug", 0)} ELSE {}))
             ELSE [ret |-> TRUE, fallback_ran |-> fallback_ran,
                   files |-> {File("text", clean_text),
                              File("debug", Min(clean_text, SampleLength))}]

\* extract_text_from_url(url, output_path) meeting d: the value returned,
\* whether the fallback pass ran, the files written.  A 'with open' block
\* that raises leaves nothing or, with partial, a file cut short.
extract_text_from_url(d, partial) ==
    IF d.fault \in {"download", "parse"} THEN Failed(FALSE, {})
    ELSE LET fallback_ran == d.primary < MinTextLength
             clean_text == IF fallback_ran THEN d.fallback ELSE d.primary
         IN  IF clean_text < MinTextLength THEN Failed(fallback_ran, {})
             ELSE IF d.fault = "write_text"
             THEN Failed(fallback_ran, IF partial THEN {File("text", 0)} ELSE {})
             ELSE IF d.fault = "write_debug"
             THEN Failed(fallback_ran,
                         {File("text", clean_text)}
                           \cup (IF partial THEN {File("debug", 0)} ELSE {}))
             ELSE [ret |-> TRUE, fallback_ran |-> fallback_ran,
                   files |-> {File("text", clean_text),
                              File("debug", Min(clean_text, SampleLength))}]

Faults == {"none", "download", "parse", "write_text", "write_debug"}

\* lengths around the floor and around the size of the debug sample
TextLengths ==
    {0, MinTextLength - 1, MinTextLength, MinTextLength + 1, SampleLength + 1}

DownloadInputs ==
    {Download(f, p, b) : f \in Faults, p \in TextLengths, b \in TextLengths}

InitText ==
    /\ download \in DownloadInputs
    /\ text_result = NotRun
    /\ text_files = {}
    /\ IdleNormalizer /\ IdleStore
    /\ IdleMetrics /\ IdleList /\ IdleDoc /\ IdleMain

ExtractTextFromUrl ==
    /\ text_result = NotRun
    /\ \E partial \in BOOLEAN :
          LET out == extract_text_from_url(download, partial)
          IN  /\ text_result' = [ret |-> out.ret, fallback_ran |-> out.fallback_ran]
              /\ text_files' = out.files
    /\ UNCHANGED <<normalizerVars, storeVars, metricsVars, listVars, docVars,
                   download, mainVars>>

NextText == ExtractTextFromUrl

SpecText == InitText /\ [][NextText]_vars

---------------------------------------------------------------------------
(* main: the loop over the selected filings and the saving of the results. *)
(* One action per stage of the loop body; a stage that calls out (SEC,     *)
(* parser, vector store, LLM) records the call in effects and either       *)
(* succeeds or fails.                                                      *)

\* the stores a run of main can start with: what earlier runs committed
StoredInputs ==
    {EmptyTables} \cup {InsertLoop(EmptyTables, b, 1).tables : b \in Batches}

\* filings_to_process: the 10-Q first, then the 10-K, either or both selected
Selections ==
    {SelectSeq(<<"10-Q", "10-K">>, LAMBDA ft : ft \in S) :
        S \in (SUBSET FilingTypes) \ {{}}}

FilingOf(ft, fd) == <<ft, [date |-> fd]>>

\* what extract_metrics can hand back to main
ExtractionOutcomes ==
    {[success |-> TRUE, data |-> StoredDataA],
     [success |-> TRUE, data |-> Str(s_text), format |-> "text"],
     [success |-> TRUE, data |-> EmptyDict],
     [success |-> FALSE, error |-> "Request timed out."]}

Failure(message) == [success |-> FALSE, error |-> message]

\* the filing the loop is at
CurrentType == filings_to_process[pc.i][1]
CurrentDate == filings_to_process[pc.i][2].date

\* the loop left after the first filing
NextFiling_leaving_loop == [i |-> pc.i + 1, stage |-> "save"]

\* 'continue' / end of the loop body: the next filing, or the code after the loop
NextFiling ==
    IF pc.i < Len(filings_to_process)
    THEN [i |-> pc.i + 1, stage |-> "check"]
    ELSE [i |-> pc.i + 1, stage |-> "save"]

AtStage(stage) == pc # NotRun /\ pc.stage = stage

\* results['filings'][filing_type] = filing_data
SetResult(ft, fd, extraction) ==
    [k \in DOMAIN results \cup {ft} |->
        IF k = ft THEN [filing_date |-> fd, extraction_result |-> extraction]
        ELSE results[k]]

InitMain ==
    /\ db = EmptyTables
    /\ call = NotRun
    /\ conn = "none"
    /\ db_enabled = FALSE
    /\ company = NotRun
    /\ filings_to_process = <<>>
    /\ pc = [i |-> 0, stage |-> "connect"]
    /\ effects = {}
    /\ results = <<>>
    /\ parsed_data = NotRun
    /\ outputs = {}
    /\ IdleNormalizer
    /\ IdleMetrics /\ IdleList /\ IdleDoc /\ IdleText

\* 'if conn: conn.close()' followed by sys.exit(1)
MainAbort ==
    /\ conn' = IF conn # "none" THEN "closed" ELSE conn
    /\ pc' = [pc EXCEPT !.stage = "exited"]

\* 'conn.close()' followed by sys.exit(1) or return: None has no close, the
\* AttributeError of a missing connection leaves main as an uncaught exception
MainCloseAndLeave(stage) ==
    IF conn = "none"
    THEN /\ pc' = [pc EXCEPT !.stage = "raised"]
         /\ effects' = effects \cup {<<"main", "close on None">>}
         /\ UNCHANGED conn
    ELSE /\ pc' = [pc EXCEPT !.stage = stage]
         /\ conn' = "closed"
         /\ UNCHANGED effects

\* the database setup: with a configuration and a connection db_enabled
\* becomes True and the database reached holds what earlier runs committed;
\* without one main proceeds with conn = None
MainConnect ==
    \E stored \in StoredInputs :
    /\ AtStage("connect")
    /\ \/ /\ conn' = "open"
          /\ db_enabled' = TRUE
          /\ db' = stored
          /\ pc' = [pc EXCEPT !.stage = "tables"]
       \/ /\ stored = EmptyTables
          /\ pc' = [pc EXCEPT !.stage = "credentials"]
          /\ UNCHANGED <<conn, db_enabled, db>>
    /\ UNCHANGED <<normalizerVars, call, metricsVars, listVars, docVars,
                   textVars, company, filings_to_process, effects, results,
                   parsed_data, outputs>>

\* 'if db_enabled: if not create_database_tables(conn): conn.close(); sys.exit(1)'
MainCreateTables ==
    /\ AtStage("tables")
    /\ \/ /\ pc' = [pc EXCEPT !.stage = "credentials"]
          /\ UNCHANGED <<conn, effects>>
       \/ MainCloseAndLeave("exited")
    /\ UNCHANGED <<normalizerVars, storeVars, metricsVars, listVars, docVars,
                   textVars, db_enabled, company, filings_to_process, results,
                   parsed_data, outputs>>

\* the OpenAI / Azure OpenAI environment: sys.exit(1) when a variable is missing
MainCheckCredentials ==
    /\ AtStage("credentials")
    /\ \/ pc' = [pc EXCEPT !.stage = "models"]
       \/ pc' = [pc EXCEPT !.stage = "exited"]
    /\ UNCHANGED <<normalizerVars, storeVars, metricsVars, listVars, docVars,
                   textVars, conn, db_enabled, company, filings_to_process,
                   effects, results, parsed_data, outputs>>

\* the LLM and the embeddings are built; 'except Exception: conn.close();
\* sys.exit(1)'
MainInitModels ==
    /\ AtStage("models")
    /\ \/ /\ pc' = [pc EXCEPT !.stage = "fetch"]
          /\ UNCHANGED <<conn, effects>>
       \/ MainCloseAndLeave("exited")
    /\ UNCHANGED <<normalizerVars, storeVars, metricsVars, listVars, docVars,
                   textVars, db_enabled, company, filings_to_process, results,
                   parsed_data, outputs>>

\* get_company_selection and the two get_filings_list calls; 'if not
\* filings_10q and not filings_10k: if conn: conn.close(); sys.exit(1)'
MainFetchFilings ==
    /\ AtStage("fetch")
    /\ company' \in Companies
    /\ \/ /\ pc' = [pc EXCEPT !.stage = "select"]
          /\ UNCHANGED conn
       \/ MainAbort
    /\ UNCHANGED <<normalizerVars, storeVars, metricsVars, listVars, docVars,
                   textVars, db_enabled, filings_to_process, effects, results,
                   parsed_data, outputs>>

\* select_filings; 'if not selected_10q and not selected_10k: if conn:
\* conn.close(); sys.exit(1)'; else filings_to_process is built
MainSelectFilings ==
    /\ AtStage("select")
    /\ \/ /\ filings_to_process' \in
                {[i \in DOMAIN s |-> FilingOf(s[i], fd)] :
                    s \in Selections, fd \in FilingDates}
          /\ pc' = [i |-> 1, stage |-> "check"]
          /\ UNCHANGED conn
       \/ /\ MainAbort
          /\ UNCHANGED filings_to_process
    /\ UNCHANGED <<normalizerVars, storeVars, metricsVars, listVars, docVars,
                   textVars, db_enabled, company, effects, results,
                   parsed_data, outputs>>

\* 'if db_enabled and check_duplicate_filing(...): continue'
MainCheckDuplicate ==
    /\ AtStage("check")
    /\ pc' = IF db_enabled /\ check_duplicate_filing(company.name, CurrentType,
                                                      CurrentDate, db)
             THEN NextFiling
             ELSE [pc EXCEPT !.stage = "resolve"]
    /\ UNCHANGED <<normalizerVars, storeVars, metricsVars, listVars, docVars,
                   textVars, conn, db_enabled, company, filings_to_process,
                   effects, results, parsed_data, outputs>>

\* a stage of the loop body whose failure ends the run
Stage_exiting(stage, callee, next, message) ==
    /\ AtStage(stage)
    /\ effects' = effects \cup {<<CurrentType, callee>>}
    /\ \/ /\ pc' = [pc EXCEPT !.stage = next]
          /\ UNCHANGED results
       \/ /\ pc' = [pc EXCEPT !.stage = "exited"]
          /\ results' = SetResult(CurrentType, CurrentDate, Failure(message))
    /\ UNCHANGED <<normalizerVars, storeVars, metricsVars, listVars, docVars,
                   textVars, conn, db_enabled, company, filings_to_process,
                   parsed_data, outputs>>

\* a stage of the loop body that goes on to the next stage although its
\* call failed
Stage_going_on(stage, callee, next, message) ==
    /\ AtStage(stage)
    /\ effects' = effects \cup {<<CurrentType, callee>>}
    /\ \/ /\ pc' = [pc EXCEPT !.stage = next]
          /\ UNCHANGED results
       \/ /\ pc' = [pc EXCEPT !.stage = next]
          /\ results' = SetResult(CurrentType, CurrentDate, Failure(message))
    /\ UNCHANGED <<normalizerVars, storeVars, metricsVars, listVars, docVars,
                   textVars, conn, db_enabled, company, filings_to_process,
                   parsed_data, outputs>>

\* one stage of the loop body: the call is made; when it fails the failure is
\* recorded in results and the loop continues with the next filing
Stage(stage, callee, next, message) ==
    /\ AtStage(stage)
    /\ effects' = effects \cup {<<CurrentType, callee>>}
    /\ \/ /\ pc' = [pc EXCEPT !.stage = next]
          /\ UNCHANGED results
       \/ /\ pc' = NextFiling
          /\ results' = SetResult(CurrentType, CurrentDate, Failure(message))
    /\ UNCHANGED <<normalizerVars, storeVars, metricsVars, listVars, docVars,
                   textVars, conn, db_enabled, company, filings_to_process,
                   parsed_data, outputs>>

MainResolveDocument ==
    Stage("resolve", "get_filing_document_url", "text", "Could not get document URL")

MainExtractText ==
    Stage("text", "extract_text_from_url", "rag", "Text extraction failed")

MainBuildRag ==
    Stage("rag", "build_rag_pipeline", "metrics", "RAG pipeline failed")

MainExtractMetrics ==
    /\ AtStage("metrics")
    /\ effects' = effects \cup {<<CurrentType, "extract_metrics">>}
    /\ \E extraction \in ExtractionOutcomes :
          results' = SetResult(CurrentType, CurrentDate, extraction)
    /\ pc' = NextFiling
    /\ UNCHANGED <<normalizerVars, storeVars, metricsVars, listVars, docVars,
                   textVars, conn, db_enabled, company, filings_to_process,
                   parsed_data, outputs>>

\* the "data" save_output_file writes for one entry of results
SavedData(filing_info) ==
    LET extraction == filing_info.extraction_result
    IN  IF extraction.success THEN extraction.data ELSE EmptyDict

\* the JSON file save_output_file writes for filing type ft
SavedFile(ft) ==
    Artifact(company.ticker, company.name, company.cik, ft,
             results[ft].filing_date, SavedData(results[ft]))

\* json_paths: one file per entry of results['filings'], in the order the
\* entries were made
JsonPaths ==
    SelectSeq(<<"10-Q", "10-K">>, LAMBDA ft : ft \in DOMAIN results)

\* the JSON file the loop over json_paths is at
CurrentFile == JsonPaths[pc.i]

\* the loop over json_paths left after the first file
NextFile_leaving_loop == [i |-> pc.i + 1, stage |-> "close"]

\* end of the body of 'for json_path in json_paths'
NextFile ==
    IF pc.i < Len(JsonPaths)
    THEN [i |-> pc.i + 1, stage |-> "parse"]
    ELSE [i |-> pc.i + 1, stage |-> "close"]

\* after the loop: 'if not results['filings']: conn.close(); return', else
\* save_output_file writes one JSON file per entry
MainSaveResults ==
    /\ AtStage("save")
    /\ IF results = <<>>
       THEN /\ MainCloseAndLeave("returned")
            /\ UNCHANGED outputs
       ELSE /\ outputs' = outputs \cup {<<ft, "json">> : ft \in DOMAIN results}
            /\ pc' = [i |-> 1, stage |-> "parse"]
            /\ UNCHANGED <<conn, effects>>
    /\ UNCHANGED <<normalizerVars, storeVars, metricsVars, listVars, docVars,
                   textVars, db_enabled, company, filings_to_process, results,
                   parsed_data>>

\* parse_json_file without its 'except Exception' clause
parse_json_file_uncaught(a) == parse_json_file(a)

\* what a call of parse_json_file returns: its whole body is inside
\* 'try: ... except Exception as e: print(...); return None'
except_Exception(returned) == IF returned = Raised THEN None ELSE returned

parse_json_file_returns(a) == except_Exception(parse_json_file(a))

\* 'if parsed_data:'
IsRecord(parsed) == parsed \notin {None, Raised}

\* parsed_data = parse_json_file(json_path); without a record the file is
\* passed over
MainParse ==
    /\ AtStage("parse")
    /\ \E saved \in {SavedFile(CurrentFile)} :
         parsed_data' = parse_json_file_returns(saved)
    /\ pc' = IF IsRecord(parsed_data') THEN [pc EXCEPT !.stage = "excel"]
             ELSE NextFile
    /\ UNCHANGED <<normalizerVars, storeVars, metricsVars, listVars, docVars,
                   textVars, conn, db_enabled, company, filings_to_process,
                   effects, results, outputs>>

\* create_excel_workbook([parsed_data], excel_path), then 'if db_enabled:'
MainCreateExcel ==
    /\ AtStage("excel")
    /\ outputs' = outputs \cup {<<CurrentFile, "excel">>}
    /\ pc' = IF db_enabled THEN [pc EXCEPT !.stage = "insert"] ELSE NextFile
    /\ UNCHANGED <<normalizerVars, storeVars, metricsVars, listVars, docVars,
                   textVars, conn, db_enabled, company, filings_to_process,
                   effects, results, parsed_data>>

\* insert_data_to_database([parsed_data], conn): whatever it returns the
\* loop goes on
MainInsertData ==
    /\ AtStage("insert")
    /\ effects' = effects \cup {<<CurrentFile, "insert_data_to_database">>}
    /\ InsertCall(<<parsed_data>>)
    /\ outputs' = IF call'.ret /\ ~call'.skipped[1]
                  THEN outputs \cup {<<CurrentFile, "database">>}
                  ELSE outputs
    /\ pc' = NextFile
    /\ UNCHANGED <<normalizerVars, metricsVars, listVars, docVars, textVars,
                   conn, db_enabled, company, filings_to_process, results,
                   parsed_data>>

\* 'if conn: conn.close()' and the closing report
MainClose ==
    /\ AtStage("close")
    /\ conn' = IF conn # "none" THEN "closed" ELSE conn
    /\ pc' = [pc EXCEPT !.stage = "done"]
    /\ UNCHANGED <<normalizerVars, storeVars, metricsVars, listVars, docVars,
                   textVars, db_enabled, company, filings_to_process, effects,
                   results, parsed_data, outputs>>

NextMain ==
    \/ MainConnect
    \/ MainCreateTables
    \/ MainCheckCredentials
    \/ MainInitModels
    \/ MainFetchFilings
    \/ MainSelectFilings
    \/ MainCheckDuplicate
    \/ MainResolveDocument
    \/ MainExtractText
    \/ MainBuildRag
    \/ MainExtractMetrics
    \/ MainSaveResults
    \/ MainParse
    \/ MainCreateExcel
    \/ MainInsertData
    \/ MainClose

SpecMain == InitMain /\ [][NextMain]_vars

---------------------------------------------------------------------------
(* Claims about the value parser (specification SpecValue) *)

Parsed == result # NotRun

\* s holds no digit: no number can be found in it
NoDigit(s) == \A i \in 1..Len(s) : ~IsDigit(s[i])

\* the sentinel spellings: "Not found", "n/m", "nm", "n.m.", "none" in any
\* letter case, and the empty string
SentinelSpellings ==
    {<<>>} \cup UNION {CaseVariants(s) :
                         s \in {s_not_found_lc, s_n_m, s_nm, s_n_m_dots, s_none}}

\* The signed decimal a string begins with: optional '-', integer digits
\* either ungrouped or in comma-separated groups of three, optional '.' and
\* fraction digits.  The index after it, 0 when the string begins with none.
LeadingDecimalEnd(c) ==
    LET j0  == IF c # <<>> /\ c[1] = "-" THEN 2 ELSE 1
        run == DigitRun(c, j0)
    IN  IF run = 0 THEN 0
        ELSE Fraction(c, IF run <= 3 THEN Groups(c, j0 + run) ELSE j0 + run)

LeadingDecimal(c) ==
    ParseFloat(Remove(SubSeq(c, 1, LeadingDecimalEnd(c) - 1), ","))

\* C1: for every raw string that is not a sentinel and that, with '$' and
\* '%' removed, begins with a signed decimal d (ungrouped or comma-grouped
\* integer digits, optional fraction), parse_simplified_value returns d as
\* the numeric component.
C1_LeadingDecimalParsed ==
    (Parsed /\ IsStr(value) /\ value.s \notin SentinelSpellings
       /\ LeadingDecimalEnd(Remove(Remove(value.s, "$"), "%")) # 0)
    => result.num = LeadingDecimal(Remove(Remove(value.s, "$"), "%"))

\* C2: for every non-empty string the display component is the input itself,
\* character for character, whether or not a number is found; when no number
\* is found (the string holds no digit) the numeric component is null.
C2_DisplayPreserved ==
    (Parsed /\ IsStr(value) /\ value.s # <<>>)
    => /\ result.str = value
       /\ (NoDigit(value.s) => result.num = None)

C2_Witness ==
    /\ Parsed
    /\ value = Str(s_1774_million)
    /\ result = [num |-> Float(1774, 0), str |-> Str(s_1774_million)]

\* C3: for every sentinel input (a sentinel spelling in any letter case, the
\* empty string, a null value) the result is a null numeric component with
\* the original input as display.
C3_SentinelsNull ==
    (Parsed /\ (value = None \/ (IsStr(value) /\ value.s \in SentinelSpellings)))
    => result = [num |-> None, str |-> value]

C3_Witness ==
    /\ Parsed
    /\ value = Str(<<"N", "/", "M">>)
    /\ result = [num |-> None, str |-> Str(<<"N", "/", "M">>)]

---------------------------------------------------------------------------
(* Claims about get_value_from_dict (specification SpecField) *)

\* the candidates of possible_keys present in data_dict, by position
PresentAt == {i \in 1..Len(possible_keys) : Has(data_dict, possible_keys[i])}
FirstPresent == CHOOSE i \in PresentAt : \A j \in PresentAt : i <= j

\* C4: get_value_from_dict returns the parsed value of the first candidate
\* key present in the mapping: the first-listed key's value wins over a
\* later-listed one, and a present earlier key holding "Not found" gives
\* (null, "Not found") without falling through to a later alias.
C4_FirstPresentKeyWins ==
    (found # NotRun /\ IsDict(data_dict) /\ PresentAt # {})
    => LET v == data_dict.m[possible_keys[FirstPresent]]
       IN  /\ found = parse_simplified_value(v)
           /\ (IsStr(v) => found.str = v)
           /\ (v = Str(s_not_found) => found = [num |-> None, str |-> Str(s_not_found)])

C4_Witness ==
    /\ possible_keys = <<"realized_price_oil_usd_per_bbl", "oil_price_realized">>
    /\ data_dict = Dict([realized_price_oil_usd_per_bbl |-> Str(s_not_found),
                         oil_price_realized |-> Str(s_148_4)])
    /\ found = [num |-> None, str |-> Str(s_not_found)]

---------------------------------------------------------------------------
(* Claims about the canonical record (specification SpecRecord) *)

Built == record.kind = "record"

\* <<group of the record, group of the data it is built from, its fields>>
GroupSources ==
    { <<"production", "production", ProductionFields>>,
      <<"activity", "activity", ActivityFields>>,
      <<"revenue", "revenue", RevenueFields>>,
      <<"pricing", "revenue", PricingFields>>,
      <<"costs", "costs", CostFields>> }

\* no candidate key of the field is present in the group mapping
NoCandidate(group, keys) == \A i \in 1..Len(keys) : ~Has(group, keys[i])

\* C5: for every field of every metric group whose group is present in the
\* data, if none of the field's candidate keys is present in the group
\* mapping, the field's MetricValue in the canonical record is (null, null).
C5_AbsentFieldNullNull ==
    Built =>
      \A g \in GroupSources :
        Has(filing_data, g[2]) =>
          \A f \in FieldNames(g[3]) :
            NoCandidate(filing_data.m[g[2]], g[3][f])
            => record[g[1]].m[f] = [num |-> None, str |-> None]

\* C6: a metric group missing from the data yields an empty mapping for that
\* group and no error, while the groups present are still built with all
\* their fields; pricing is built from the 'revenue' group and is empty
\* exactly when 'revenue' is missing.
C6_MissingGroupsEmpty ==
    (record # NotRun /\ IsDict(filing_data)
       /\ \A g \in GroupSources :
            Has(filing_data, g[2]) => IsDict(filing_data.m[g[2]]))
    => /\ record # Raised
       /\ (Truthy(filing_data) => Built)
       /\ (Built =>
             \A g \in GroupSources :
               IF Has(filing_data, g[2])
               THEN IsDict(record[g[1]]) /\ DOMAIN record[g[1]].m = FieldNames(g[3])
               ELSE record[g[1]] = EmptyDict)

C6_Witness ==
    /\ Built
    /\ ~Has(filing_data, "production") /\ record.production = EmptyDict
    /\ ~Has(filing_data, "costs") /\ record.costs = EmptyDict
    /\ Has(filing_data, "revenue")
    /\ DOMAIN record.revenue.m = FieldNames(RevenueFields)
    /\ DOMAIN record.pricing.m = FieldNames(PricingFields)

\* C7 as stated: the basin mapping has exactly the emitted basin names as
\* keys, and each basin's value is the set of production MetricValue pairs
\* obtained by normalizing the basin's raw value+unit strings.
C7_BasinsNormalized ==
    Built =>
      LET raw == Get(filing_data, "basins", EmptyDict)
      IN  /\ DOMAIN record.basins.m = DOMAIN raw.m
          /\ \A b \in DOMAIN raw.m :
                record.basins.m[b] =
                    extract_production_data(Dict([production |-> raw.m[b]]))

\* C7 amended: the basin mapping has exactly the emitted basin names as keys,
\* and each basin's value is the basin's raw object as emitted (raw
\* value+unit strings under the extraction schema's keys), not normalized.
C7_BasinsAsEmitted ==
    Built =>
      /\ Has(filing_data, "basins") => record.basins = filing_data.m["basins"]
      /\ ~Has(filing_data, "basins") => record.basins = EmptyDict

C7_Witness ==
    /\ Built
    /\ DOMAIN record.basins.m = {"Permian", "Delaware"}
    /\ record.basins.m["Permian"] = BasinPermian
    /\ record.basins.m["Permian"].m["oil_production_mbbl_per_day"] = Str(s_148_4)

---------------------------------------------------------------------------
(* Claims about the store (specification Spec) *)

Committed == call # NotRun /\ call.ret

\* the rows of table t stored for the filing of the canonical record data
RowsOfFiling(tables, t, data) ==
    {r \in tables[t] :
        /\ r.ticker = data.company_info.ticker
        /\ r.filing_date = data.company_info.filing_date
        /\ r.filing_type = data.company_info.filing_type}

\* the summary table holds the filing of data, under the same company name
StoredBefore(tables, data) ==
    \E r \in RowsOfFiling(tables, "company_summary", data) :
        r.company_name = data.company_info.company_name

\* the record a call was handed last
LastRecord == call.all_data[Len(call.all_data)]

\* C9 as stated: inserting a record whose filing (same ticker, filing type
\* and filing date) was inserted before leaves each table holding the
\* second insert's values.
C9_SecondInsertOverwrites ==
    (Committed /\ StoredBefore(call.before, LastRecord))
    => \A i \in 1..Len(MetricTables) :
         \E r \in RowsOfFiling(db, MetricTables[i][1], LastRecord) :
            r.cols = MetricCols(LastRecord[MetricTables[i][2]], MetricTables[i][3])

\* C9 amended: a record whose filing (same ticker, company name, filing type
\* and filing date) is already stored is skipped as a duplicate, and every
\* table keeps the rows of the first insert for that filing unchanged.
C9_SecondInsertSkipped ==
    Committed =>
      \A i \in 1..Len(call.all_data) :
        StoredBefore(call.before, call.all_data[i])
        => /\ call.skipped[i]
           /\ \A t \in TableNames :
                 RowsOfFiling(db, t, call.all_data[i])
                   = RowsOfFiling(call.before, t, call.all_data[i])

C9_Witness ==
    /\ Committed
    /\ Len(call.all_data) = 1
    /\ StoredBefore(call.before, LastRecord)
    /\ LastRecord.production.m["oil_mbbl_per_day"].str = Str(s_not_found)
    /\ \E r \in RowsOfFiling(db, "production_data", LastRecord) :
          r.cols["oil_mbbl_per_day"] = Str(s_148_4)

\* C10: each of the six per-filing tables holds at most one row per (ticker,
\* filing_date, filing_type), the basin table at most one row per (ticker,
\* filing date, filing type, basin name); a committed insert of a record not
\* skipped as duplicate leaves exactly one row of its filing in every
\* per-filing table.
C10_OneRowPerKey ==
    /\ \A t \in TableNames : \A r1, r2 \in db[t] :
          (/\ r1.ticker = r2.ticker
           /\ r1.filing_date = r2.filing_date
           /\ r1.filing_type = r2.filing_type
           /\ (t = "basin_data" => r1.basin_name = r2.basin_name))
          => r1 = r2
    /\ Committed =>
         \A i \in 1..Len(call.all_data) :
           ~call.skipped[i]
           => \A t \in FilingTables :
                Cardinality(RowsOfFiling(db, t, call.all_data[i])) = 1

C10_Witness ==
    /\ Committed
    /\ Len(call.all_data) = 2
    /\ ~call.skipped[1] /\ ~call.skipped[2]
    /\ call.before["company_summary"] # {}
    /\ Cardinality(db["company_summary"]) = 3
    /\ Cardinality(db["cost_data"]) = 3
    /\ Cardinality(db["basin_data"]) = 3

---------------------------------------------------------------------------
(* Claims about main (specification SpecMain) *)

\* filing type ft is among the selected filings
Selected(ft) ==
    \E i \in DOMAIN filings_to_process : filings_to_process[i][1] = ft

\* the summary table holds the selected filing of type ft
SummaryHolds(ft) ==
    \E i \in DOMAIN filings_to_process :
      /\ filings_to_process[i][1] = ft
      /\ \E r \in db["company_summary"] :
            /\ r.company_name = company.name
            /\ r.filing_type = ft
            /\ r.filing_date = filings_to_process[i][2].date

\* everything the run has done for filing type ft
TraceOf(ft) ==
    <<{e \in effects : e[1] = ft}, ft \in DOMAIN results,
      {o \in outputs : o[1] = ft}>>

Untouched(ft) == TraceOf(ft) = <<{}, FALSE, {}>>

\* when the run is over, the documents index of ft has been fetched unless
\* the database is enabled and the summary table holds the filing
StillProcessed(ft) ==
    (AtStage("done") /\ Selected(ft))
    => \/ <<ft, "get_filing_document_url">> \in effects
       \/ db_enabled /\ SummaryHolds(ft)

---------------------------------------------------------------------------
(* Claims about extract_metrics (specification SpecMetrics) *)

Extracted == extraction_result # NotRun

Answered == Extracted /\ response[1].kind = "returns"

\* positions i of a fence labeled json that a later fence k closes
JsonBlocks(s) ==
    {b \in (1..Len(s)) \X (1..Len(s)) :
        /\ s[b[1]] = FENCE
        /\ b[1] + 1 < b[2]
        /\ s[b[1] + 1] = LABEL
        /\ s[b[2]] = FENCE}

\* the first json block: the one that opens first, closed by the first fence
FirstJsonBlock(s) ==
    CHOOSE b \in JsonBlocks(s) :
        \A c \in JsonBlocks(s) : b[1] < c[1] \/ (b[1] = c[1] /\ b[2] <= c[2])

\* the text the claims say is parsed: the contents of the first json block,
\* or the whole response
TextToParse(s) ==
    IF JsonBlocks(s) = {} THEN s
    ELSE SubSeq(s, FirstJsonBlock(s)[1] + 2, FirstJsonBlock(s)[2] - 1)

\* C12: the contents of the first fenced block labeled json are parsed,
\* ignoring the text outside it, or the whole response when there is no such
\* block; when that text is valid JSON the result is exactly
\* {success: true, data: parsed value}, without a 'format' field.
C12_FencedJsonParsed ==
    (Answered /\ json_loads(TextToParse(response[1].text)) # JSONDecodeError)
    => extraction_result =
          [success |-> TRUE, data |-> json_loads(TextToParse(response[1].text))]

C12_Witness ==
    /\ Answered
    /\ response[1].text = two_blocks
    /\ extraction_result = [success |-> TRUE, data |-> EmptyDict]

\* C13 as stated: a response that cannot be parsed as JSON is returned with
\* format "text" and, as data, the complete response text.
C13_RawTextPreserved ==
    (Answered /\ json_loads(TextToParse(response[1].text)) = JSONDecodeError)
    => extraction_result =
          [success |-> TRUE, data |-> Str(response[1].text), format |-> "text"]

\* C14: the chain is invoked exactly once per call; when that invocation
\* raises, the result is {success: false, error: the message of the error},
\* nothing is raised to the caller and the chain is not invoked again.
C14_InvokedOnceFailsSoft ==
    Extracted =>
      /\ invocations = 1
      /\ response[1].kind = "raises"
         => extraction_result = [success |-> FALSE, error |-> response[1].message]

C14_Witness ==
    /\ Extracted
    /\ invocations = 1
    /\ response = <<Raises("Request timed out."), Returns(<<OBJECT>>)>>
    /\ extraction_result = [success |-> FALSE, error |-> "Request timed out."]

---------------------------------------------------------------------------
(* Claims about the fetcher (specification SpecFetcher) *)

Listed == filings # NotRun

\* the filings table the index answered with, header included; <<>> if none
IndexTable ==
    IF index_response.kind = "page" THEN index_response.table ELSE <<>>

\* reference ref was made from row: the row's kind cell is the kind asked
\* for, the row has a documents link, and ref carries the row's date and link
MadeFrom(ref, row) ==
    /\ RStrip(LStrip(row.kind)) = list_request.filing_type
    /\ row.link = "href"
    /\ ref.type = list_request.filing_type
    /\ ref.date = row.date
    /\ ref.accession = row.href[Len(row.href)]
    /\ ref.documents_url = <<BASE_URL>> \o row.href

RECURSIVE InRowOrder(_, _)
\* the references refs come, in this order, from distinct rows of rows
InRowOrder(refs, rows) ==
    \/ refs = <<>>
    \/ /\ rows # <<>>
       /\ \/ MadeFrom(Head(refs), Head(rows)) /\ InRowOrder(Tail(refs), Tail(rows))
          \/ InRowOrder(refs, Tail(rows))

\* C15 as stated: get_filings_list(kind, count) never returns more than
\* count filing references.
C15_AtMostCount == Listed => Len(filings.items) <= list_request.count

\* C16: every returned reference comes from a row after the header whose kind
\* cell is exactly the kind asked for and that has a documents link, and the
\* references are in the order of their rows.
C16_ExactKindInOrder ==
    Listed => /\ filings.kind = "list"
              /\ InRowOrder(filings.items, DataRows(IndexTable))

C16_Witness ==
    /\ Listed
    /\ list_request.filing_type = s_10Q
    /\ Len(filings.items) = 2
    /\ Len(IndexTable) = 4
    /\ IndexTable[2].kind = s_10Q_padded
    /\ IndexTable[3].kind = s_10QA
    /\ IndexTable[4].kind = s_10Q
    /\ filings.items[1].accession = "a2-index.htm"
    /\ filings.items[2].accession = "a1-index.htm"

\* a matching row of the filings table has a documents link without href
BrokenLink ==
    \E i \in 2..Len(IndexTable) :
        /\ IndexTable[i].cells >= 4
        /\ IndexTable[i].kind = s_10Q
        /\ list_request.filing_type = s_10Q
        /\ IndexTable[i].link = "no_href"

\* C17: get_filings_list returns the empty list on a network error, on a
\* missing filings table and on a parsing error, and never raises;
\* get_filing_document_url returns None on such an error and never raises.
C17_FailsSoft ==
    /\ Listed =>
         /\ filings # Raised
         /\ (\/ index_response.kind = "error"
             \/ ~index_response.found
             \/ BrokenLink) => filings = List(<<>>)
    /\ doc_url # NotRun =>
         /\ doc_url # Raised
         /\ (\/ documents_page.kind = "error"
             \/ ~documents_page.found) => doc_url = None

C17_Witness ==
    \/ Listed /\ index_response = RequestError("HTTPError") /\ filings = List(<<>>)
    \/ doc_url = None /\ documents_page = RequestError("Timeout")

\* the links of the documents page, in page order, that survive filtering:
\* they end in .htm or .html and match no exclusion pattern
Resolved == doc_url # NotRun /\ documents_page.kind = "page"
              /\ documents_page.found

EndsInHtm(h) ==
    \/ EndsWith(Lower(h), <<".", "h", "t", "m">>)
    \/ EndsWith(Lower(h), <<".", "h", "t", "m", "l">>)

\* index page, XBRL schema or instance or other .xml/.xsd file, spreadsheet,
\* pdf, image, exhibit ex<digits>, graphic
MatchesExclusion(h) ==
    LET l == Lower(h)
    IN  \/ Contains(l, <<"i", "n", "d", "e", "x", ".", "h", "t", "m">>)
        \/ Contains(l, <<"_", "h", "t", "m", ".", "x", "m", "l">>)
        \/ \E e \in {<<"x", "s", "d">>, <<"x", "m", "l">>, <<"x", "l", "s">>,
                     <<"x", "l", "s", "x">>, <<"p", "d", "f">>, <<"j", "p", "g">>,
                     <<"g", "i", "f">>, <<"p", "n", "g">>} :
              EndsWith(l, <<".">> \o e)
        \/ \E i \in 1..Len(l) - 2 :
              /\ SubSeq(l, i, i + 1) = <<"e", "x">>
              /\ l[i + 2] \in {"0", "1", "2", "3", "4", "5", "6", "7", "8", "9"}
        \/ Contains(l, <<"g", "r", "a", "p", "h", "i", "c">>)

LinksOnPage ==
    LET rows == DataRows(documents_page.table)
        linked == SelectSeq(rows, LAMBDA row : row.cells >= 3 /\ row.link = "href")
    IN  [i \in DOMAIN linked |-> linked[i].href]

Survivors ==
    SelectSeq(LinksOnPage, LAMBDA h : EndsInHtm(h) /\ ~MatchesExclusion(h))

KindToken == Remove(Lower(doc_request.filing_type), "-")

\* the priorities as C18 states them: every survivor without kind token and
\* ticker is a generic .htm link of priority 1
StatedPriority(h) ==
    IF Contains(Lower(h), KindToken) THEN 3
    ELSE IF Contains(Lower(h), Lower(doc_request.ticker)) THEN 2
    ELSE 1

\* the priorities as amended: a survivor without kind token and ticker whose
\* path contains 'xml' has priority 0
AmendedPriority(h) ==
    IF Contains(Lower(h), KindToken) THEN 3
    ELSE IF Contains(Lower(h), Lower(doc_request.ticker)) THEN 2
    ELSE IF ~Contains(Lower(h), <<"x", "m", "l">>) THEN 1
    ELSE 0

\* the result is the first survivor of maximal priority under prio
FirstOfMaximal(prio(_)) ==
    (Resolved /\ Survivors # <<>>)
    => \E i \in DOMAIN Survivors :
          /\ doc_url # None
          /\ doc_url.href = Survivors[i]
          /\ \A j \in DOMAIN Survivors :
                \/ prio(Survivors[j]) < prio(Survivors[i])
                \/ (prio(Survivors[j]) = prio(Survivors[i]) /\ i <= j)

\* C18 as stated: the surviving link of maximal priority is returned (kind
\* token 3, else ticker 2, else generic .htm 1), the first on the page among
\* equals.
C18_FirstOfMaximalPriority == FirstOfMaximal(StatedPriority)

\* C18 amended: the same with four priorities: kind token 3, else ticker 2,
\* else a link whose path does not contain 'xml' 1, else 0.  For the links
\* ex10.htm, company-10q-2025.htm, filing_htm.xml and kind 10-Q the result
\* is company-10q-2025.htm.
C18_FirstOfMaximalPriorityXml ==
    /\ FirstOfMaximal(AmendedPriority)
    /\ (/\ Resolved
        /\ doc_request.filing_type = s_10Q
        /\ LinksOnPage = <<h_ex10, h_kind, h_xbrl>>) => doc_url.href = h_kind

C18_Witness ==
    /\ Resolved
    /\ doc_request.filing_type = s_10Q
    /\ LinksOnPage = <<h_ex10, h_kind, h_xbrl>>
    /\ doc_url.href = h_kind

\* C19: the result is never a link that matches an exclusion pattern or that
\* does not end in .htm/.html, whatever kind token or ticker it contains; it
\* is absent exactly when no link of the page survives the filtering.
C19_ExcludedNeverReturned ==
    Resolved =>
      /\ doc_url = None <=> Survivors = <<>>
      /\ doc_url # None =>
           /\ EndsInHtm(doc_url.href)
           /\ ~MatchesExclusion(doc_url.href)
           /\ \E i \in DOMAIN LinksOnPage : LinksOnPage[i] = doc_url.href

C19_Witness ==
    /\ Resolved
    /\ doc_request.filing_type = s_10Q
    /\ LinksOnPage = <<h_upper, h_index, h_generic>>
    /\ doc_url # None
    /\ doc_url.href = h_generic

---------------------------------------------------------------------------
(* Claims about extract_text_from_url (specification SpecText) *)

TextDone == text_result # NotRun

\* the primary pass completed
PrimaryDone == download.fault \notin {"download", "parse"}

\* the text the call ends with: the fallback's when the fallback ran
FinalLength ==
    IF text_result.fallback_ran THEN download.fallback ELSE download.primary

\* an error occurred: the download or the primary pass raised, or a write
\* that was reached raised
ErrorOccurred ==
    \/ ~PrimaryDone
    \/ download.fault \in {"write_text", "write_debug"} /\ FinalLength >= 1000

\* the fallback runs iff the primary pass yields under 1000 characters;
\* failure iff the final text is under 1000 characters or an error occurred;
\* success comes with the final text, of at least 1000 characters, written
FloorPolicy ==
    /\ PrimaryDone => (text_result.fallback_ran <=> download.primary < 1000)
    /\ ~PrimaryDone => ~text_result.fallback_ran
    /\ ~text_result.ret <=> (ErrorOccurred \/ FinalLength < 1000)
    /\ text_result.ret =>
         /\ FinalLength >= 1000
         /\ \E f \in text_files : f.name = "text" /\ f.length = FinalLength

\* C20 as stated: the floor policy, and on failure neither the output text
\* file nor the debug sample is written.
C20_FallbackAndFloor ==
    TextDone => /\ FloorPolicy
                /\ ~text_result.ret => text_files = {}

\* C20 amended: the floor policy; on a failure by a short text or by an error
\* of the download or of the primary pass no file is written, while a failure
\* by an error in writing can leave the output text file behind.
C20_FallbackAndFloorWrites ==
    TextDone =>
      /\ FloorPolicy
      /\ (~text_result.ret
          /\ download.fault \notin {"write_text", "write_debug"}) => text_files = {}
      /\ (~text_result.ret /\ FinalLength < 1000) => text_files = {}

C20_Witness ==
    /\ TextDone
    /\ download.primary = 999
    /\ download.fallback = 1000
    /\ text_result = [ret |-> TRUE, fallback_ran |-> TRUE]
    /\ \E f \in text_files : f.name = "text" /\ f.length = 1000

---------------------------------------------------------------------------
(* Claims about JSON numbers in the value parser (specification SpecValue) *)

\* C30: for every metric value that is a JSON number n instead of a string,
\* n = 0 included, parse_simplified_value returns n as the numeric component
\* and n as the display component.
C30_NumberPassedThrough ==
    (Parsed /\ value.kind = "num") => result = [num |-> value, str |-> value]

---------------------------------------------------------------------------
(* Claims about the stored metric columns (specification Spec) *)

\* C27: after any sequence of insert_data_to_database calls no metric column
\* of any table, the basin table included, holds the literal "Not found" or
\* an empty string: such values, and basin metrics missing from the data,
\* are stored as NULL.
C27_SentinelsStoredAsNull ==
    \A t \in TableNames \ {"company_summary"} : \A r \in db[t] :
        /\ \A c \in DOMAIN r.cols : r.cols[c] \notin {Str(s_not_found), Str(<<>>)}
        /\ (t = "basin_data" /\ call # NotRun) =>
             \A d \in {call.all_data[i] : i \in DOMAIN call.all_data} :
               (/\ call.ret
                /\ Has(d.basins, r.basin_name)
                /\ d.company_info.ticker = r.ticker
                /\ d.company_info.filing_type = r.filing_type
                /\ d.company_info.filing_date = r.filing_date
                /\ r \notin call.before["basin_data"])
               => \A c \in DOMAIN BasinColumns :
                     ~Has(d.basins.m[r.basin_name], BasinColumns[c])
                        => r.cols[c] = None

\* a committed call whose record shows a revenue as "Not found" and whose
\* basin lacks a metric: both columns are NULL
C27_Witness ==
    /\ call # NotRun
    /\ call.ret
    /\ \E i \in DOMAIN call.all_data :
         LET d == call.all_data[i]
         IN  /\ d.revenue.m["oil_revenue_million"].str = Str(s_not_found)
             /\ \E r \in db["revenue_data"] \ call.before["revenue_data"] :
                   /\ r.ticker = d.company_info.ticker
                   /\ r.cols["oil_revenue"] = None
             /\ \E r \in db["basin_data"] \ call.before["basin_data"] :
                   /\ r.ticker = d.company_info.ticker
                   /\ ~Has(d.basins.m[r.basin_name], "gas_production_bcf_total")
                   /\ r.cols["gas_reserves"] = None

---------------------------------------------------------------------------
(* Claims about a failing insert_data_to_database (specification Spec) *)

\* C23: when a database error occurs inside an insert_data_to_database call
\* the transaction is rolled back: no row written by the call, in any of the
\* seven tables and for any record of the batch, remains stored, the database
\* content equals what it was before the call, and the call returns False.
C23_FailedCallRolledBack ==
    (call # NotRun /\ ~call.ret)
    => /\ db = call.before
       /\ \A t \in TableNames : (call.written[t] \ call.before[t]) \cap db[t] = {}

\* a failing call that had written rows of its first record before the error
C23_Witness ==
    /\ call # NotRun
    /\ ~call.ret
    /\ Len(call.all_data) = 2
    /\ \A t \in FilingTables : call.written[t] \ call.before[t] # {}
    /\ call.written["basin_data"] \ call.before["basin_data"] # {}
    /\ db = call.before

---------------------------------------------------------------------------
(* Claims about the duplicate test (specification Spec) *)

\* the summary table holds a row with the natural key (ticker, filing type,
\* filing date)
HoldsKey(tables, ticker, filing_type, filing_date) ==
    \E r \in tables["company_summary"] :
        /\ r.ticker = ticker
        /\ r.filing_type = filing_type
        /\ r.filing_date = filing_date

---------------------------------------------------------------------------
(* Claims about the stages of main (specification SpecMain) *)

\* the calls of the four stages, in the order of the loop body
StageCalls ==
    <<"get_filing_document_url", "extract_text_from_url", "build_rag_pipeline",
      "extract_metrics">>

\* the error main records when the n-th stage fails
StageErrors ==
    <<"Could not get document URL", "Text extraction failed", "RAG pipeline failed">>

\* the stage calls made so far for filing type ft
CallsOf(ft) == {StageCalls[n] : n \in {m \in 1..4 : <<ft, StageCalls[m]>> \in effects}}

\* the first n stage calls
FirstCalls(n) == {StageCalls[m] : m \in 1..n}

\* the n-th stage is being called for ft in this step
Starts(ft, n) ==
    <<ft, StageCalls[n]>> \in effects' /\ <<ft, StageCalls[n]>> \notin effects

\* C21: for each filing the stages run in the order resolve document, extract
\* text, build retrieval pipeline, extract metrics, and a stage is started
\* only after every earlier stage succeeded for that filing: the LLM is never
\* invoked for a filing whose document URL was not resolved, whose text
\* extraction failed or whose pipeline build failed, and such a filing is
\* recorded with success = false and the error naming the first failed stage.
C21_StagesInOrder ==
    /\ [][\A ft \in FilingTypes : \A n \in 1..4 :
            Starts(ft, n) => /\ CallsOf(ft) = FirstCalls(n - 1)
                             /\ ft \notin DOMAIN results]_vars
    /\ [](\A ft \in FilingTypes :
            /\ \E n \in 0..4 : CallsOf(ft) = FirstCalls(n)
            /\ ft \in DOMAIN results =>
                 /\ \A n \in 1..3 :
                      (CallsOf(ft) = FirstCalls(n))
                        <=> (results[ft].extraction_result = Failure(StageErrors[n]))
                 /\ ("extract_metrics" \in CallsOf(ft))
                        <=> (results[ft].extraction_result \in ExtractionOutcomes))

\* the 10-Q failed in text extraction after two calls, the 10-K went through
\* all four stages
C21_Witness ==
    /\ AtStage("done")
    /\ {"10-Q", "10-K"} \subseteq DOMAIN results
    /\ results["10-Q"].extraction_result = Failure("Text extraction failed")
    /\ CallsOf("10-Q") = FirstCalls(2)
    /\ results["10-K"].extraction_result.success
    /\ CallsOf("10-K") = FirstCalls(4)

\* the stages of the loop over filings_to_process
LoopStages == {"check", "resolve", "text", "rag", "metrics"}

\* this step records a failed stage for the filing the loop is at
RecordsFailure ==
    /\ pc.stage \in LoopStages
    /\ CurrentType \in DOMAIN results'
    /\ ~results'[CurrentType].extraction_result.success

\* C22: a stage failure for one selected filing (document resolution, text
\* extraction, pipeline build, model or transport error) marks only that
\* filing failed; the run continues and the remaining selected filing still
\* goes through its stages, and the results saved at the end hold an entry
\* for every selected filing that was not skipped as a duplicate.
C22_FailureIsLocal ==
    /\ [][RecordsFailure =>
            /\ \A ft \in DOMAIN results : ft \in DOMAIN results'
                                            /\ results'[ft] = results[ft]
            /\ DOMAIN results' = DOMAIN results \cup {CurrentType}
            /\ pc' = NextFiling
            /\ pc'.stage \in {"check", "save"}]_vars
    /\ [](\A ft \in FilingTypes :
            /\ (pc.stage \in {"save", "parse", "excel", "insert", "close", "done"}
                  /\ Selected(ft))
               => \/ /\ ft \in DOMAIN results
                     /\ CallsOf(ft) # {}
                  \/ db_enabled /\ SummaryHolds(ft) /\ Untouched(ft)
            /\ (AtStage("done") /\ ft \in DOMAIN results)
               => <<ft, "json">> \in outputs)

\* the 10-Q failed at its first stage; the 10-K still went through all four
\* stages and both are saved
C22_Witness ==
    /\ AtStage("done")
    /\ {"10-Q", "10-K"} \subseteq DOMAIN results
    /\ results["10-Q"].extraction_result = Failure("Could not get document URL")
    /\ CallsOf("10-K") = FirstCalls(4)
    /\ results["10-K"].extraction_result.success
    /\ {<<"10-Q", "json">>, <<"10-K", "json">>} \subseteq outputs

---------------------------------------------------------------------------
(* Claims about the saving of the results in main (specification SpecMain) *)

\* the saved JSON file of filing type ft parses into a canonical record
ParsesToRecord(ft) == IsRecord(parse_json_file(SavedFile(ft)))

\* insert_data_to_database is being called for ft in this step
Inserts(ft) ==
    /\ <<ft, "insert_data_to_database">> \in effects'
    /\ <<ft, "insert_data_to_database">> \notin effects

\* C24: for every filing whose saved JSON parses into a canonical record main
\* creates the Excel workbook before it attempts the database insertion, and
\* a failed insertion neither removes that workbook nor stops the run: the
\* remaining filings still get their workbook and their own insertion attempt.
C24_ExcelBeforeStore ==
    /\ [][/\ outputs \subseteq outputs'
          /\ \A ft \in FilingTypes :
               Inserts(ft) =>
                 /\ <<ft, "excel">> \in outputs
                 /\ ~call'.ret => /\ outputs' = outputs
                                  /\ pc' = NextFile
                                  /\ pc'.stage \in {"parse", "close"}]_vars
    /\ [](\A ft \in FilingTypes :
            (AtStage("done") /\ ft \in DOMAIN results)
            => /\ ParsesToRecord(ft) <=> <<ft, "excel">> \in outputs
               /\ (ParsesToRecord(ft) /\ db_enabled)
                    <=> <<ft, "insert_data_to_database">> \in effects)

\* the insertion of the 10-Q failed; its workbook is there, and the 10-K got
\* its workbook and its rows
C24_Witness ==
    /\ AtStage("done")
    /\ db_enabled
    /\ <<"10-Q", "insert_data_to_database">> \in effects
    /\ <<"10-Q", "excel">> \in outputs
    /\ <<"10-Q", "database">> \notin outputs
    /\ db["company_summary"] # {}
    /\ \A r \in db["company_summary"] : r.filing_type # "10-Q"
    /\ {<<"10-K", "excel">>, <<"10-K", "database">>} \subseteq outputs

---------------------------------------------------------------------------
(* Claims about the ways main ends (specification SpecMain) *)

\* the steps of main before the loop over the selected filings
SetupStages == {"connect", "tables", "credentials", "models", "fetch", "select"}

\* sys.exit(1), or an exception that leaves main
Ended == pc.stage \in {"exited", "raised"}

\* nothing has been done for any filing
NothingProcessed ==
    /\ results = <<>>
    /\ outputs = {}
    /\ call = NotRun
    /\ \A e \in effects : e[1] \notin FilingTypes

---------------------------------------------------------------------------
(* Claims about filings without usable data (specification SpecMain) *)

\* the saved data of ft is empty, or is raw text rather than an object
NoUsableData(ft) ==
    \/ ~Truthy(SavedFile(ft).data)
    \/ ~IsDict(SavedFile(ft).data)

\* main has made something of the saved file of ft beyond the JSON file
HasWorkbookOrRows(ft) ==
    \/ <<ft, "excel">> \in outputs
    \/ <<ft, "database">> \in outputs
    \/ <<ft, "insert_data_to_database">> \in effects

\* C28: for a filing whose extraction result has success = false, or whose
\* data is absent, the JSON file save_output_file writes has data = {} and
\* parse_json_file returns no record for it, so the filing gets no Excel
\* workbook and no database row; parse_json_file never raises, it returns
\* None on a malformed file, raw text in place of the data object included.
C28_NoDataNoWorkbookNoRows ==
    /\ parsed_data # Raised
    /\ \A ft \in FilingTypes :
         ft \in DOMAIN results =>
           /\ ~results[ft].extraction_result.success
                => SavedFile(ft).data = EmptyDict
           /\ NoUsableData(ft)
                => /\ parse_json_file_returns(SavedFile(ft)) = None
                   /\ ~HasWorkbookOrRows(ft)

\* the run is over with the database in use: the 10-Q failed, the 10-K came
\* back as raw text, both have their JSON file and nothing else
C28_Witness ==
    /\ AtStage("done")
    /\ db_enabled
    /\ {"10-Q", "10-K"} \subseteq DOMAIN results
    /\ ~results["10-Q"].extraction_result.success
    /\ results["10-K"].extraction_result.success
    /\ SavedFile("10-K").data = Str(s_text)
    /\ parsed_data = None
    /\ {<<"10-Q", "json">>, <<"10-K", "json">>} \subseteq outputs
---------------------------------------------------------------------------
(* Claims about the closing of the connection in main (specification SpecMain) *)

\* C29: on every path of main the connection is closed only when there is
\* one: close() is never called on the absent (None) connection, also when
\* the database was skipped or could not be reached and the run then aborts
\* or ends early.
C29_CloseOnlyOnConnection ==
    /\ <<"main", "close on None">> \notin effects
    /\ pc.stage # "raised"
    /\ conn = "closed" => db_enabled
===========================================================================
